---- MODULE Spec2Model ----
(***************************************************************************)
(* Verification model of claude-agent-kit.                                 *)
(*                                                                         *)
(* Part I  (SpecQuery):   the control engine, agent-sdk/src/internal/      *)
(*                        query.rs, with the transport halves it uses.     *)
(* Part II (SpecSession): the per-connection session loop,                 *)
(*                        websocket/src/server.rs and                      *)
(*                        websocket/src/session/query/session.rs.          *)
(*                                                                         *)
(* Time is abstracted: a timeout is an action that may fire whenever the   *)
(* awaited value has not arrived.                                          *)
(***************************************************************************)
EXTENDS Integers, Sequences, FiniteSets, TLC

(***************************************************************************)
(* Bounds of the model (not program constants).                            *)
(***************************************************************************)
\* control requests the caller may issue through one Query
MaxRequests == 2
\* outbound commands (control requests and raw writes) the caller may issue
MaxCommands == 2
\* lines the CLI may emit on stdout
MaxInbound == 2

(***************************************************************************)
(* Program constants.                                                      *)
(***************************************************************************)
\* mpsc::channel(100) between the stdout reader task and the Query
ReadChanCap == 100
\* mpsc::channel(100) between the Query reader task and the message stream
MessageChanCap == 100

VARIABLES
    \* ---- the CLI process (environment) ----
    cliAlive,          \* the child runs: its pipes are open
    emitted,           \* number of lines the CLI has written to stdout
    \* ---- transport ----
    read_rx,           \* parsed stdout lines not yet taken by the Query reader
    stdin,             \* what has reached the child's stdin, in chunks
    write_half,        \* the task that holds the Mutex<WriteHalf>, or NoTask
    \* ---- Query ----
    readerPc,          \* the task spawned by Query::start
    pending_requests,  \* keys of the pending-request table
    request_counter,
    fulfilled,         \* per request id: number of values its sink delivered
    sinkVal,           \* what the oneshot of the call in progress holds
    message_chan,      \* message_tx/message_rx
    handlers,          \* tasks spawned for inbound control requests
    can_use_tool,      \* Query.can_use_tool is Some
    \* ---- the caller that owns &mut Query ----
    callerPc,
    callerLine,        \* the line the call in progress writes
    callerRet,         \* what the last call returned
    cmdSeq,            \* number of outbound commands issued so far
    \* ---- the session loop of handle_socket (Part II) ----
    sessPc,            \* where the loop stands: idle, turn, closed
    current_cancel,    \* Option<CancellationToken> of handle_socket
    turns,             \* one record per call of process_query_stream
    streamPc,          \* the generator of Session::query
    subscribed,        \* the turn's stream holds a message subscription
    agent_stream,      \* messages published to that subscription, not yet read
    perm_rx,           \* (PermissionRequest, resp_tx) pairs queued to the loop
    pending_permission,\* the resp_tx stored by the loop (0: None)
    perm_sent,         \* handlers whose permission closure awaits resp_rx
    perm_val,          \* decisions delivered through resp_tx
    \* ---- the phases of handle_socket before the message loop (Part III) ----
    initPc,            \* where handle_socket stands before its loop
    init_frame,        \* the first frame wait_for_init_message did not ignore
    init_data,         \* the UserSessionInitData it returned
    init_reply,        \* what the bridge has sent the peer before the loop
    \* ---- framing and parsing of lines (Part V) ----
    wcall,             \* the write call under way: its path and its argument
    wire,              \* the bytes that call has put on the CLI's stdin
    yielded,           \* what the stream of receive_messages has yielded
    consumerPc,        \* whether that stream is still open
    \* ---- the way out to the peer (Part VII) ----
    ws_chan,           \* the channel from handle_socket to its writer task
    writer,            \* the writer task: where it stands, what it is sending
    peer_got,          \* what the socket's sink has accepted, in order
    held,              \* the event the session loop is sending (0: none)
    lagged,            \* events the bus dropped that the subscription has
                       \* not been told of yet
    dropped,           \* CLI messages that can no longer reach the peer
    \* ---- the SDK's objects used directly (Part VIII) ----
    client,            \* a ClaudeClient: its options and its Option fields
    transport,         \* a SubprocessCLITransport used on its own
    api,               \* the call made last and what it returned
    \* ---- further objects (Part IX) ----
    pool,              \* an AgentPool and the agents its callers hold
    errs               \* the child's stderr: pipe, reader task, channel

qvars == <<cliAlive, emitted, read_rx, stdin, write_half, readerPc,
           pending_requests, request_counter, fulfilled, sinkVal,
           message_chan, handlers, can_use_tool, callerPc, callerLine,
           callerRet, cmdSeq>>

\* groups used in UNCHANGED clauses
cliVars == <<cliAlive, emitted>>
lockVars == <<write_half>>
tableVars == <<pending_requests, request_counter, fulfilled, sinkVal>>
callerVars == <<callerPc, callerLine, callerRet, cmdSeq>>

ivars == <<initPc, init_frame, init_data, init_reply>>

bvars == <<ws_chan, writer, peer_got, held, lagged, dropped>>

pvars == <<pool, errs>>

kvars == <<client, transport, api, pvars>>

cvars == <<wcall, wire, yielded, consumerPc, bvars, kvars>>

sessVars == <<sessPc, current_cancel, turns, streamPc, subscribed,
              agent_stream, perm_rx, pending_permission, perm_sent, perm_val,
              ivars>>

svars == <<sessPc, current_cancel, turns, streamPc, subscribed, agent_stream,
           perm_rx, pending_permission, perm_sent, perm_val, ivars, cvars>>

vars == <<qvars, svars>>

(***************************************************************************)
(* Tasks that can hold the write lock.                                     *)
(***************************************************************************)
NoTask == <<"none", 0>>
Caller == <<"caller", 0>>
Handler(h) == <<"handler", h>>

NoLine == [type |-> "none", id |-> 0, sub |-> "-", body |-> "-", seq |-> 0]

\* serde_json::json!({"type":"control_request","request_id":..,"request":..}) + "\n"
ControlRequestLine(id, sub, n) ==
    [type |-> "control_request", id |-> id, sub |-> sub, body |-> "-", seq |-> n]

\* a raw line handed to Query::write (a user message)
UserLine(n) ==
    [type |-> "user", id |-> 0, sub |-> "-", body |-> "-", seq |-> n]

\* json!({"type":"control_response","response":{"subtype":"success",..}}) + "\n"
SuccessResponseLine(rid, body) ==
    [type |-> "control_response", id |-> rid, sub |-> "success", body |-> body, seq |-> 0]

\* Query::new: no hook callback is ever registered
hook_callbacks == {}

\* the subtype of the control requests the caller issues (interrupt,
\* set_permission_mode, set_model and rewind_files all go the same way)
OutSubtypes == {"interrupt"}

\* request ids whose control_request line has completely reached stdin
IdsOnStdin ==
    {stdin[i].line.id : i \in {j \in 1..Len(stdin) :
        stdin[j].line.type = "control_request" /\ stdin[j].part = "tail"}}

(***************************************************************************)
(* What the CLI can emit.  id 0 stands for an absent or unknown            *)
(* request_id; wf says whether the fields the subtype requires are there.  *)
(***************************************************************************)
CliControlResponses ==
    [type : {"control_response"}, id : IdsOnStdin,
     sub : {"success", "error"}, wf : {TRUE}]

CliControlRequests ==
    [type : {"control_request"}, id : {emitted + 1},
     sub : {"can_use_tool", "hook_callback", "mcp_message"}, wf : {TRUE}]
    \cup [type : {"control_request"}, id : {emitted + 1},
          sub : {"can_use_tool"}, wf : {FALSE}]

CliRegular ==
    [type : {"assistant"}, id : {0}, sub : {"-"}, wf : {TRUE}]

CliMessages == CliControlResponses \cup CliControlRequests \cup CliRegular

\* no write call under way, nothing yielded by receive_messages
NoCall == [path |-> "none", data |-> <<>>, done |-> FALSE]

\* the writer task waits at rx.recv(); nothing is on its way to the peer
WriterIdle == [pc |-> "recv", msg |-> 0]

NoOutput ==
    /\ ws_chan = <<>>
    /\ writer = WriterIdle
    /\ peer_got = <<>>
    /\ held = 0
    /\ lagged = 0
    /\ dropped = 0

\* no agent pool, no stderr of a child
NoFurther ==
    /\ pool = "none"
    /\ errs = "none"

\* no ClaudeClient or transport is used directly, no call was made
NoObjects ==
    /\ client = "none"
    /\ transport = "none"
    /\ api = "none"
    /\ NoFurther

NoCodec ==
    /\ NoObjects
    /\ wcall = NoCall
    /\ wire = <<>>
    /\ yielded = <<>>
    /\ consumerPc = "open"
    /\ NoOutput

\* no UserSessionInitData
NoInit == [ok |-> FALSE, err |-> "none", is_workspace_init |-> FALSE,
           is_resume |-> FALSE]

\* a Query used directly, with no session loop around it
NoSession ==
    /\ sessPc = "none"
    /\ current_cancel = "none"
    /\ turns = <<>>
    /\ streamPc = "none"
    /\ subscribed = FALSE
    /\ agent_stream = <<>>
    /\ perm_rx = <<>>
    /\ pending_permission = 0
    /\ perm_sent = {}
    /\ perm_val = {}
    /\ initPc = "none"
    /\ init_frame = "none"
    /\ init_data = NoInit
    /\ init_reply = "none"
    /\ NoCodec

InitQuery ==
    /\ cliAlive = TRUE
    /\ emitted = 0
    /\ read_rx = <<>>
    /\ stdin = <<>>
    /\ write_half = NoTask
    /\ readerPc = "run"
    /\ pending_requests = {}
    /\ request_counter = 0
    /\ fulfilled = <<>>
    /\ sinkVal = "empty"
    /\ message_chan = <<>>
    /\ handlers = <<>>
    /\ can_use_tool \in BOOLEAN
    /\ callerPc = "idle"
    /\ callerLine = NoLine
    /\ callerRet = "none"
    /\ cmdSeq = 0
    /\ NoSession

(***************************************************************************)
(* Environment: the CLI.                                                   *)
(***************************************************************************)
\* the child writes one line; ReadHalf::read_messages parses and queues it
CliEmit(m) ==
    /\ cliAlive
    /\ Len(read_rx) < ReadChanCap
    /\ emitted' = emitted + 1
    /\ read_rx' = Append(read_rx, m)
    /\ UNCHANGED <<cliAlive, stdin, lockVars, readerPc, tableVars,
                   message_chan, handlers, can_use_tool, callerVars>>

\* the child exits: stdout reaches EOF, writes to stdin fail
CliExit ==
    /\ cliAlive
    /\ cliAlive' = FALSE
    /\ UNCHANGED <<emitted, read_rx, stdin, lockVars, readerPc, tableVars,
                   message_chan, handlers, can_use_tool, callerVars>>
    /\ UNCHANGED svars

(***************************************************************************)
(* The oneshot channel of a control request.  Its receiver lives in the    *)
(* frame of send_control_request: it exists from the insert to the return. *)
(***************************************************************************)
RxAlive(id) ==
    /\ id = request_counter
    /\ callerPc \in {"scr_lock", "scr_write", "scr_wait"}

\* tx.send(response): delivers iff the receiver still exists
SinkSend(id, m) ==
    IF RxAlive(id)
    THEN /\ fulfilled' = [fulfilled EXCEPT ![id] = @ + 1]
         /\ sinkVal' = m.sub
    ELSE UNCHANGED <<fulfilled, sinkVal>>

(***************************************************************************)
(* The reader task of Query::start, one loop iteration per action.         *)
(***************************************************************************)
\* the pending table is read, not taken from: pending.get instead of pending.remove
ReaderControlResponseKeepsEntry ==
    /\ readerPc = "run"
    /\ Len(read_rx) > 0
    /\ Head(read_rx).type = "control_response"
    /\ read_rx' = Tail(read_rx)
    /\ LET m == Head(read_rx) IN
         IF m.id \in pending_requests
         THEN SinkSend(m.id, m)
         ELSE UNCHANGED <<fulfilled, sinkVal>>
    /\ UNCHANGED <<cliVars, stdin, lockVars, readerPc, pending_requests,
                   request_counter, message_chan, handlers, can_use_tool,
                   callerVars>>
    /\ UNCHANGED svars

\* Some("control_response"): pending.remove(request_id), then tx.send
ReaderControlResponse ==
    /\ readerPc = "run"
    /\ Len(read_rx) > 0
    /\ Head(read_rx).type = "control_response"
    /\ read_rx' = Tail(read_rx)
    /\ LET m == Head(read_rx) IN
         IF m.id \in pending_requests
         THEN /\ pending_requests' = pending_requests \ {m.id}
              /\ SinkSend(m.id, m)
         ELSE UNCHANGED <<pending_requests, fulfilled, sinkVal>>
    /\ UNCHANGED <<cliVars, stdin, lockVars, readerPc, request_counter,
                   message_chan, handlers, can_use_tool, callerVars>>
    /\ UNCHANGED svars

\* the callback id a hook_callback request names
HookCallbackId == "cb"

\* handle_control_request, lines 157-182, with the early returns of
\* handle_permission_request (206-214) and handle_hook_callback (248-261):
\* where the new task stands at its first suspension.  It has returned Err
\* ("failed", which the spawning closure only logs) or awaits its callback.
HandlerRun(m) ==
    IF m.id = 0
    THEN "failed"                                 \* Missing request_id
    ELSE IF m.sub = "can_use_tool"
    THEN IF ~m.wf
         THEN "failed"                            \* Missing tool_name / input
         ELSE IF ~can_use_tool
         THEN "failed"                            \* canUseTool callback not provided
         ELSE "await_callback"
    ELSE IF m.sub = "hook_callback"
    THEN IF ~m.wf
         THEN "failed"                            \* Missing callback_id / input
         ELSE IF HookCallbackId \notin hook_callbacks
         THEN "failed"                            \* Hook callback not found
         ELSE "await_callback"
    ELSE "failed"                                 \* Unsupported subtype

\* Some("control_request"): tokio::spawn(handle_control_request(message, ..));
\* the new task runs to its first suspension, touching nothing shared
ReaderControlRequest ==
    /\ readerPc = "run"
    /\ Len(read_rx) > 0
    /\ Head(read_rx).type = "control_request"
    /\ read_rx' = Tail(read_rx)
    /\ LET m == Head(read_rx) IN
         handlers' = Append(handlers,
            [rid |-> m.id, pc |-> HandlerRun(m), resp |-> "-"])
    /\ UNCHANGED <<cliVars, stdin, lockVars, readerPc, tableVars,
                   message_chan, can_use_tool, callerVars>>
    /\ UNCHANGED svars

\* any other type: message_tx.send(message).await, which waits for room
ReaderRegular ==
    /\ readerPc = "run"
    /\ Len(read_rx) > 0
    /\ Head(read_rx).type \notin {"control_response", "control_request"}
    /\ Len(message_chan) < MessageChanCap
    /\ read_rx' = Tail(read_rx)
    /\ message_chan' = Append(message_chan, Head(read_rx))
    /\ UNCHANGED <<cliVars, stdin, lockVars, readerPc, tableVars,
                   handlers, can_use_tool, callerVars>>
    /\ UNCHANGED svars

\* rx.recv() yields None once the stdout reader has ended and the queue is empty
ReaderEof ==
    /\ readerPc = "run"
    /\ ~cliAlive
    /\ Len(read_rx) = 0
    /\ readerPc' = "done"
    /\ UNCHANGED <<cliVars, read_rx, stdin, lockVars, tableVars,
                   message_chan, handlers, can_use_tool, callerVars>>
    /\ UNCHANGED svars

(***************************************************************************)
(* Writing under the Mutex<WriteHalf>.  WriteHalf::write is write_all,     *)
(* which may reach the pipe in several pieces, then flush: a line is       *)
(* modelled as two pieces, head and tail (the tail ends with the newline). *)
(* A task writes the head when it gets the lock and drops the guard when   *)
(* it has written the tail.  A write to the pipe of a dead child fails.    *)
(***************************************************************************)
Chunk(t, line, part) == [w |-> t, line |-> line, part |-> part]

(***************************************************************************)
(* The caller: the owner of &mut Query.  Its calls are sequential.         *)
(***************************************************************************)
\* send_control_request, lines 284-309: allocate the id, create the oneshot,
\* insert the sender in the pending table, build the line
SendControlRequestBeginReusesId(sub) ==
    /\ callerPc = "idle"
    /\ request_counter' = IF request_counter = 0 THEN 1 ELSE request_counter
    /\ pending_requests' = pending_requests \cup {request_counter'}
    /\ sinkVal' = "empty"
    /\ cmdSeq' = cmdSeq + 1
    /\ callerLine' = ControlRequestLine(request_counter', sub, cmdSeq')
    /\ fulfilled' = Append(fulfilled, 0)
    /\ callerPc' = "scr_lock"
    /\ UNCHANGED <<cliVars, read_rx, stdin, lockVars, readerPc,
                   message_chan, handlers, can_use_tool, callerRet>>

SendControlRequestBegin(sub) ==
    /\ callerPc = "idle"
    /\ request_counter' = request_counter + 1
    /\ pending_requests' = pending_requests \cup {request_counter'}
    /\ sinkVal' = "empty"
    /\ cmdSeq' = cmdSeq + 1
    /\ callerLine' = ControlRequestLine(request_counter', sub, cmdSeq')
    /\ fulfilled' = Append(fulfilled, 0)
    /\ callerPc' = "scr_lock"
    /\ UNCHANGED <<cliVars, read_rx, stdin, lockVars, readerPc,
                   message_chan, handlers, can_use_tool, callerRet>>

\* Query::write, line 396: a raw line
QueryWriteBegin ==
    /\ callerPc = "idle"
    /\ cmdSeq' = cmdSeq + 1
    /\ callerLine' = UserLine(cmdSeq')
    /\ callerPc' = "w_lock"
    /\ UNCHANGED <<cliVars, read_rx, stdin, lockVars, readerPc, tableVars,
                   message_chan, handlers, can_use_tool, callerRet>>

\* self.write_half.lock().await, then the first piece of write_guard.write;
\* on Err(Io) `?` returns: the guard and the oneshot receiver are dropped and
\* the pending table is not touched
CallerAcquire ==
    /\ callerPc \in {"scr_lock", "w_lock"}
    /\ write_half = NoTask
    /\ IF cliAlive
       THEN /\ write_half' = Caller
            /\ stdin' = Append(stdin, Chunk(Caller, callerLine, "head"))
            /\ callerPc' = IF callerPc = "scr_lock" THEN "scr_write" ELSE "w_write"
            /\ UNCHANGED callerRet
       ELSE /\ callerPc' = "idle"
            /\ callerRet' = "io"
            /\ UNCHANGED <<write_half, stdin>>
    /\ UNCHANGED <<cliVars, read_rx, readerPc, tableVars,
                   message_chan, handlers, can_use_tool, callerLine, cmdSeq>>
    /\ UNCHANGED svars

\* the rest of write_guard.write and the drop of the guard; after Ok
\* send_control_request goes on to wait for the response and Query::write
\* returns; Err(Io) is returned through `?`
CallerWriteDone ==
    /\ callerPc \in {"scr_write", "w_write"}
    /\ write_half' = NoTask
    /\ IF cliAlive
       THEN /\ stdin' = Append(stdin, Chunk(Caller, callerLine, "tail"))
            /\ IF callerPc = "scr_write"
               THEN callerPc' = "scr_wait" /\ UNCHANGED callerRet
               ELSE callerPc' = "idle" /\ callerRet' = "ok"
       ELSE /\ callerPc' = "idle"
            /\ callerRet' = "io"
            /\ UNCHANGED stdin
    /\ UNCHANGED <<cliVars, read_rx, readerPc, tableVars,
                   message_chan, handlers, can_use_tool, callerLine, cmdSeq>>
    /\ UNCHANGED svars

\* lines 316-333: the oneshot delivered the response
CallerResolve ==
    /\ callerPc = "scr_wait"
    /\ sinkVal # "empty"
    /\ callerPc' = "idle"
    /\ callerRet' = IF sinkVal = "error" THEN "control_protocol" ELSE "ok"
    /\ UNCHANGED <<cliVars, read_rx, stdin, lockVars, readerPc, tableVars,
                   message_chan, handlers, can_use_tool, callerLine, cmdSeq>>
    /\ UNCHANGED svars

\* lines 316-320: the timeout elapsed first; `?` returns Error::Timeout
CallerTimeout ==
    /\ callerPc = "scr_wait"
    /\ sinkVal = "empty"
    /\ callerPc' = "idle"
    /\ callerRet' = "timeout"
    /\ UNCHANGED <<cliVars, read_rx, stdin, lockVars, readerPc, tableVars,
                   message_chan, handlers, can_use_tool, callerLine, cmdSeq>>
    /\ UNCHANGED svars

\* ClaudeClient::disconnect: self.query.take(), then Query::close, which sets
\* `closed` and returns Ok; the owner makes no further call
Disconnect ==
    /\ callerPc = "idle"
    /\ callerPc' = "disconnected"
    /\ callerRet' = "ok"
    /\ UNCHANGED <<cliVars, read_rx, stdin, lockVars, readerPc, tableVars,
                   message_chan, handlers, can_use_tool, callerLine, cmdSeq>>
    /\ UNCHANGED svars

\* crate::internal::parse_message: the type is one of the five message
\* types and the fields that type requires are there
KnownTypes == {"user", "assistant", "system", "result", "stream_event"}

parse_message(data) == data.type \in KnownTypes /\ data.wf

\* yield Err(e)
ParseErr == -1

\* the stream of ClaudeClient::receive_messages is polled and takes one
\* message: Ok(message) is yielded, or Err(e) is yielded and the stream ends
ConsumerRecv ==
    /\ consumerPc = "open"
    /\ Len(message_chan) > 0
    /\ message_chan' = Tail(message_chan)
    /\ IF parse_message(Head(message_chan))
       THEN /\ yielded' = Append(yielded, Head(message_chan).id)
            /\ UNCHANGED consumerPc
       ELSE /\ yielded' = Append(yielded, ParseErr)
            /\ consumerPc' = "ended"
    /\ UNCHANGED <<cliVars, read_rx, stdin, lockVars, readerPc, tableVars,
                   handlers, can_use_tool, callerVars>>
    /\ UNCHANGED <<sessVars, wcall, wire, bvars, kvars>>

(***************************************************************************)
(* Handler tasks: Query::handle_control_request, one per inbound           *)
(* control_request.  An Err return is only logged by the spawning closure. *)
(***************************************************************************)
HandlerIds == 1..Len(handlers)

SetPc(h, pc) == handlers' = [handlers EXCEPT ![h].pc = pc]

\* lines 221-240 and 185-194: the callback returned; Ok(result) becomes the
\* response body, Err is returned through `?`
HandlerCallbackReturned(h, result) ==
    /\ h \in HandlerIds
    /\ handlers[h].pc = "await_callback"
    /\ handlers' = IF result = "err"
                   THEN [handlers EXCEPT ![h].pc = "failed"]
                   ELSE [handlers EXCEPT ![h].pc = "lock", ![h].resp = result]
    /\ UNCHANGED <<cliVars, read_rx, stdin, lockVars, readerPc, tableVars,
                   message_chan, can_use_tool, callerVars>>

\* the handler writes without waiting for the Mutex<WriteHalf>
HandlerAcquireNoLock(h) ==
    /\ h \in HandlerIds
    /\ handlers[h].pc = "lock"
    /\ IF cliAlive
       THEN /\ write_half' = Handler(h)
            /\ stdin' = Append(stdin,
                  Chunk(Handler(h),
                        SuccessResponseLine(handlers[h].rid, handlers[h].resp),
                        "head"))
            /\ SetPc(h, "write")
       ELSE /\ SetPc(h, "failed")
            /\ UNCHANGED <<write_half, stdin>>
    /\ UNCHANGED <<cliVars, read_rx, readerPc, tableVars,
                   message_chan, can_use_tool, callerVars>>
    /\ UNCHANGED svars

\* lines 195-196: write_half.lock().await, then the first piece of the write;
\* Err(Io) is returned through `?`
HandlerAcquire(h) ==
    /\ h \in HandlerIds
    /\ handlers[h].pc = "lock"
    /\ write_half = NoTask
    /\ IF cliAlive
       THEN /\ write_half' = Handler(h)
            /\ stdin' = Append(stdin,
                  Chunk(Handler(h),
                        SuccessResponseLine(handlers[h].rid, handlers[h].resp),
                        "head"))
            /\ SetPc(h, "write")
       ELSE /\ SetPc(h, "failed")
            /\ UNCHANGED <<write_half, stdin>>
    /\ UNCHANGED <<cliVars, read_rx, readerPc, tableVars,
                   message_chan, can_use_tool, callerVars>>
    /\ UNCHANGED svars

\* lines 196-198: the rest of the write, the guard is dropped
HandlerWriteDone(h) ==
    /\ h \in HandlerIds
    /\ handlers[h].pc = "write"
    /\ write_half' = NoTask
    /\ IF cliAlive
       THEN /\ stdin' = Append(stdin,
                  Chunk(Handler(h),
                        SuccessResponseLine(handlers[h].rid, handlers[h].resp),
                        "tail"))
            /\ SetPc(h, "done")
       ELSE /\ SetPc(h, "failed")
            /\ UNCHANGED stdin
    /\ UNCHANGED <<cliVars, read_rx, readerPc, tableVars,
                   message_chan, can_use_tool, callerVars>>
    /\ UNCHANGED svars

\* what a CanUseTool callback can return to handle_permission_request
CallbackResults == {"allow", "deny", "err"}

(***************************************************************************)
(* Part I: the control engine with an arbitrary caller, an arbitrary       *)
(* callback and an arbitrary CLI.                                          *)
(***************************************************************************)
NextQuery ==
    \/ \E m \in CliMessages :
          emitted < MaxInbound /\ CliEmit(m) /\ UNCHANGED svars
    \/ CliExit
    \/ ReaderControlResponse
    \/ ReaderControlRequest
    \/ ReaderRegular
    \/ ReaderEof
    \/ \E sub \in OutSubtypes :
          /\ cmdSeq < MaxCommands
          /\ request_counter < MaxRequests
          /\ SendControlRequestBegin(sub)
          /\ UNCHANGED svars
    \/ cmdSeq < MaxCommands /\ QueryWriteBegin /\ UNCHANGED svars
    \/ CallerAcquire
    \/ CallerWriteDone
    \/ CallerResolve
    \/ CallerTimeout
    \/ ConsumerRecv
    \/ Disconnect
    \/ \E h \in HandlerIds, r \in CallbackResults :
          HandlerCallbackReturned(h, r) /\ UNCHANGED svars
    \/ \E h \in HandlerIds : HandlerAcquire(h)
    \/ \E h \in HandlerIds : HandlerWriteDone(h)

SpecQuery == InitQuery /\ [][NextQuery]_vars

(***************************************************************************)
(* Claims about the control engine.                                        *)
(***************************************************************************)
RequestIds == 1..request_counter

\* the call of send_control_request that allocated id has not returned
StillWaiting(id) == RxAlive(id)

\* C1 (as claimed): every request id in the pending-request table belongs to
\* a caller that is still waiting for it; no entry remains for a
\* send_control_request that has returned by response or by timeout (stated
\* while the CLI runs, so that no write to it has failed).
C1_PendingOnlyWhileWaiting ==
    cliAlive => \A id \in pending_requests : StillWaiting(id)

\* a control_response at the head of the reader's queue names no pending entry
UnmatchedResponseAtHead ==
    /\ readerPc = "run"
    /\ Len(read_rx) > 0
    /\ Head(read_rx).type = "control_response"
    /\ Head(read_rx).id \notin pending_requests

\* C2: the one-shot sink of every control request delivers at most one
\* value, whatever the order of responses, repeated responses, timeouts and
\* the end of the reader; and when the reader takes a control_response whose
\* request_id has no pending entry, no sink is fulfilled and the reader
\* keeps running.
C2_SinkAtMostOnce ==
    [][ /\ \A id \in RequestIds : fulfilled'[id] <= 1
        /\ (UnmatchedResponseAtHead /\ read_rx' = Tail(read_rx))
             => (fulfilled' = fulfilled /\ sinkVal' = sinkVal /\ readerPc' = "run")
      ]_vars

\* C2 witness: a sink was fulfilled, its entry is gone, and a second response
\* with the same request_id is the next message the reader takes
C2_Witness ==
    /\ UnmatchedResponseAtHead
    /\ Head(read_rx).id \in RequestIds
    /\ fulfilled[Head(read_rx).id] = 1

\* complete control_response lines on stdin that answer request id rid
ResponsesOnStdin(rid) ==
    {i \in 1..Len(stdin) : /\ stdin[i].part = "tail"
                           /\ stdin[i].line.type = "control_response"
                           /\ stdin[i].line.id = rid}

\* C3 (as claimed): once the handler of an inbound control_request that
\* carries a request_id has ended (the CLI still running), stdin holds
\* exactly one control_response line with that request_id, subtype success
\* if the handler succeeded and subtype error if it failed.
C3_EveryRequestAnswered ==
    \A h \in HandlerIds :
        (/\ cliAlive
         /\ handlers[h].rid # 0
         /\ handlers[h].pc \in {"done", "failed"})
        => /\ Cardinality(ResponsesOnStdin(handlers[h].rid)) = 1
           /\ \A i \in ResponsesOnStdin(handlers[h].rid) :
                stdin[i].line.sub =
                    (IF handlers[h].pc = "done" THEN "success" ELSE "error")

\* the piece at position i of stdin is part of an unbroken line
Unbroken(i) ==
    IF stdin[i].part = "head"
    THEN \/ /\ i = Len(stdin)
            /\ (write_half = stdin[i].w \/ ~cliAlive)
         \/ /\ i < Len(stdin)
            /\ stdin[i + 1].part = "tail"
            /\ stdin[i + 1].w = stdin[i].w
            /\ stdin[i + 1].line = stdin[i].line
    ELSE /\ i > 1
         /\ stdin[i - 1].part = "head"
         /\ stdin[i - 1].w = stdin[i].w

\* C4: the pieces of two lines never interleave on stdin, whoever wrote them
\* (send_control_request, Query::write, a control-request handler), and the
\* lines of the caller's commands appear in the order the commands were
\* issued, each at most once.
C4_WritesSerialized ==
    /\ \A i \in 1..Len(stdin) : Unbroken(i)
    /\ \A i, j \in 1..Len(stdin) :
         (/\ i < j
          /\ stdin[i].w = Caller /\ stdin[j].w = Caller
          /\ stdin[i].part = "tail" /\ stdin[j].part = "tail")
         => stdin[i].line.seq < stdin[j].line.seq

\* C4 witness: a handler waits for the write lock while the caller is in the
\* middle of the line of its second command, after a handler's line
C4_Witness ==
    /\ write_half = Caller
    /\ callerLine.seq = 2
    /\ \E h \in HandlerIds : handlers[h].pc = "lock"
    /\ \E i \in 1..Len(stdin) : stdin[i].w[1] = "handler" /\ stdin[i].part = "tail"

(***************************************************************************)
(* Part II.  One WebSocket session: handle_socket's message loop           *)
(* (websocket/src/server.rs), the turn stream of Session::query            *)
(* (websocket/src/session/query/session.rs) and the permission closure,    *)
(* on top of the control engine above.                                     *)
(***************************************************************************)
MaxTurns == 2

\* tokio::sync::mpsc::channel(10) between the permission closure and the loop
PermChanCap == 10

Decisions == {"allow", "allow_always", "deny"}

Range(seq) == {seq[i] : i \in 1..Len(seq)}

CurTurn == Len(turns)

\* a call of process_query_stream, with what has happened in it so far
NewTurn == [st |-> "active", intr |-> FALSE, cancelled |-> FALSE,
            intrId |-> 0, fwd |-> {}, ign |-> FALSE]

\* the stream of the turn is dropped: its subscription with it
StreamDropped ==
    /\ streamPc' = "none"
    /\ subscribed' = FALSE
    /\ agent_stream' = <<>>

\* a return that leaves the token stored
TurnCompletedKeepsToken(rec) ==
    /\ turns' = [turns EXCEPT ![CurTurn] = [rec EXCEPT !.ign = FALSE]]
    /\ UNCHANGED current_cancel
    /\ sessPc' = "idle"
    /\ StreamDropped

\* `*current_cancel = None; return QueryStreamResult::Completed`
TurnCompleted(rec) ==
    /\ turns' = [turns EXCEPT ![CurTurn] = [rec EXCEPT !.ign = FALSE]]
    /\ current_cancel' = "none"
    /\ sessPc' = "idle"
    /\ StreamDropped

\* PermissionHandlerAdapter::can_use: the PermissionResult of a decision.
\* AllowAlways becomes an allow that carries an AddRules permission update.
can_use(decision) ==
    CASE decision = "allow" -> "allow"
      [] decision = "allow_always" -> "allow_with_rules"
      [] decision = "deny" -> "deny"

\* the oneshot receiver resp_rx of the closure run for handler h exists
RespRxAlive(h) ==
    /\ h \in HandlerIds
    /\ handlers[h].pc = "await_callback"
    /\ h \in perm_sent

\* the oneshot sender resp_tx of handler h exists somewhere
RespTxAlive(h) == h \in Range(perm_rx) \/ pending_permission = h

Delivered(h) == \E d \in Decisions : <<h, d>> \in perm_val

\* the session is set up: ClaudeClient::connect has sent the initialize
\* request (id 1) and received its response; the loop of Phase 3 starts
InitSession ==
    /\ cliAlive = TRUE
    /\ emitted = 0
    /\ read_rx = <<>>
    /\ stdin = <<Chunk(Caller, ControlRequestLine(1, "initialize", 1), "head"),
                 Chunk(Caller, ControlRequestLine(1, "initialize", 1), "tail")>>
    /\ write_half = NoTask
    /\ readerPc = "run"
    /\ pending_requests = {}
    /\ request_counter = 1
    /\ fulfilled = <<1>>
    /\ sinkVal = "success"
    /\ message_chan = <<>>
    /\ handlers = <<>>
    /\ can_use_tool = TRUE
    /\ callerPc = "idle"
    /\ callerLine = ControlRequestLine(1, "initialize", 1)
    /\ callerRet = "ok"
    /\ cmdSeq = 1
    /\ sessPc = "idle"
    /\ current_cancel = "none"
    /\ turns = <<>>
    /\ streamPc = "none"
    /\ subscribed = FALSE
    /\ agent_stream = <<>>
    /\ perm_rx = <<>>
    /\ pending_permission = 0
    /\ perm_sent = {}
    /\ perm_val = {}
    /\ initPc = "loop"
    /\ init_frame = "user_session_init"
    /\ init_data = [ok |-> TRUE, err |-> "none", is_workspace_init |-> FALSE,
                    is_resume |-> TRUE]
    /\ init_reply = "session_init_success"
    /\ NoCodec

(***************************************************************************)
(* Environment: the CLI of a session.  It speaks once it has read a user   *)
(* line; it answers interrupt requests it has read.                        *)
(***************************************************************************)
UserLinesOnStdin ==
    {j \in 1..Len(stdin) : stdin[j].line.type = "user" /\ stdin[j].part = "tail"}

InterruptIdsOnStdin ==
    {stdin[j].line.id : j \in {i \in 1..Len(stdin) :
        /\ stdin[i].line.type = "control_request"
        /\ stdin[i].line.sub = "interrupt"
        /\ stdin[i].part = "tail"}}

\* the turn a message of the CLI belongs to: the latest user message it had
\* read when it emitted the message (carried in the id field of assistant
\* and result messages, which the code does not look at)
AnswersTurn == Cardinality(UserLinesOnStdin)

CliSessionMessages ==
    [type : {"control_response"}, id : InterruptIdsOnStdin,
     sub : {"success"}, wf : {TRUE}]
    \cup (IF UserLinesOnStdin = {} THEN {} ELSE
          [type : {"control_request"}, id : {emitted + 1},
           sub : {"can_use_tool"}, wf : {TRUE}]
          \cup [type : {"assistant"}, id : {AnswersTurn}, sub : {"-"}, wf : {TRUE}]
          \cup [type : {"result"}, id : {AnswersTurn},
                 sub : {"success", "error"}, wf : {TRUE}])
    \cup (IF InterruptIdsOnStdin = {} THEN {} ELSE
          [type : {"result"}, id : {AnswersTurn}, sub : {"interrupted"},
           wf : {TRUE}])

\* any other type: the message is published to the subscribers of the
\* client's protocol messages; with no subscriber it is dropped
ReaderPublish ==
    /\ readerPc = "run"
    /\ Len(read_rx) > 0
    /\ Head(read_rx).type \notin {"control_response", "control_request"}
    /\ read_rx' = Tail(read_rx)
    /\ agent_stream' = IF subscribed
                       THEN Append(agent_stream, Head(read_rx))
                       ELSE agent_stream
    /\ UNCHANGED <<cliVars, stdin, lockVars, readerPc, tableVars,
                   message_chan, handlers, can_use_tool, callerVars>>
    /\ UNCHANGED <<sessPc, current_cancel, turns, streamPc, subscribed,
                   perm_rx, pending_permission, perm_sent, perm_val>>
    /\ UNCHANGED <<ivars, cvars>>

(***************************************************************************)
(* The permission closure of handle_socket, run inside a handler task by   *)
(* PermissionHandlerAdapter::can_use.                                      *)
(***************************************************************************)
\* tx.send((req, resp_tx)).await: Deny when the loop's receiver is gone
PermSend(h) ==
    /\ h \in HandlerIds
    /\ handlers[h].pc = "await_callback"
    /\ h \notin perm_sent
    /\ IF sessPc = "closed"
       THEN /\ HandlerCallbackReturned(h, can_use("deny"))
            /\ UNCHANGED svars
       ELSE /\ Len(perm_rx) < PermChanCap
            /\ perm_rx' = Append(perm_rx, h)
            /\ perm_sent' = perm_sent \cup {h}
            /\ UNCHANGED qvars
            /\ UNCHANGED <<sessPc, current_cancel, turns, streamPc, subscribed,
                           agent_stream, pending_permission, perm_val>>
    /\ UNCHANGED <<ivars, cvars>>

\* timeout(300 s, resp_rx) is ready: Ok(Ok(response)) or Ok(Err(_))
PermReturn(h) ==
    /\ RespRxAlive(h)
    /\ \/ \E d \in Decisions :
            /\ <<h, d>> \in perm_val
            /\ HandlerCallbackReturned(h, can_use(d))
       \/ /\ ~Delivered(h)
          /\ ~RespTxAlive(h)
          /\ HandlerCallbackReturned(h, can_use("deny"))
    /\ perm_sent' = perm_sent \ {h}
    /\ UNCHANGED <<sessPc, current_cancel, turns, streamPc, subscribed,
                   agent_stream, perm_rx, pending_permission, perm_val>>
    /\ UNCHANGED <<ivars, cvars>>

\* the wait for resp_rx has no timer
PermTimeoutNever(h) ==
    /\ FALSE
    /\ UNCHANGED vars

\* timeout(300 s, resp_rx) elapsed: Err(_)
PermTimeout(h) ==
    /\ RespRxAlive(h)
    /\ ~Delivered(h)
    /\ HandlerCallbackReturned(h, can_use("deny"))
    /\ perm_sent' = perm_sent \ {h}
    /\ UNCHANGED <<sessPc, current_cancel, turns, streamPc, subscribed,
                   agent_stream, perm_rx, pending_permission, perm_val>>
    /\ UNCHANGED <<ivars, cvars>>

(***************************************************************************)
(* The arms of the two select! loops.  handle_socket's loop (Outer_) runs  *)
(* while no turn is in flight, process_query_stream's (Inner_) during one. *)
(***************************************************************************)
\* Some((req, resp_tx)) = perm_rx.recv(): `*pending = Some(resp_tx)`, then
\* the permission_request event goes to the peer
TakePermRequest ==
    /\ Len(perm_rx) > 0
    /\ pending_permission' = Head(perm_rx)
    /\ perm_rx' = Tail(perm_rx)
    /\ UNCHANGED qvars
    /\ UNCHANGED <<sessPc, current_cancel, turns, streamPc, subscribed,
                   agent_stream, perm_sent, perm_val>>
    /\ UNCHANGED <<ivars, cvars>>

\* a permission response that sends on the stored sender and leaves it stored
TakePermissionResponseKeepsSink(d) ==
    /\ perm_val' = IF RespRxAlive(pending_permission)
                   THEN perm_val \cup {<<pending_permission, d>>}
                   ELSE perm_val
    /\ UNCHANGED pending_permission
    /\ UNCHANGED qvars
    /\ UNCHANGED <<sessPc, current_cancel, turns, streamPc, subscribed,
                   agent_stream, perm_rx, perm_sent>>
    /\ UNCHANGED <<ivars, cvars>>

\* ClientMessage::PermissionResponse: pending.take(), then sender.send
TakePermissionResponse(d) ==
    /\ IF pending_permission # 0
       THEN /\ pending_permission' = 0
            /\ perm_val' = IF RespRxAlive(pending_permission)
                           THEN perm_val \cup {<<pending_permission, d>>}
                           ELSE perm_val
       ELSE UNCHANGED <<pending_permission, perm_val>>
    /\ UNCHANGED qvars
    /\ UNCHANGED <<sessPc, current_cancel, turns, streamPc, subscribed,
                   agent_stream, perm_rx, perm_sent>>
    /\ UNCHANGED <<ivars, cvars>>

\* Some(Ok(WsMessage::Close(_))) | None: the loop is left, the child is
\* killed, handle_socket returns and drops perm_rx and pending_permission
SocketClosed ==
    /\ sessPc' = "closed"
    /\ current_cancel' = "none"
    /\ cliAlive' = FALSE
    /\ perm_rx' = <<>>
    /\ pending_permission' = 0
    /\ UNCHANGED <<emitted, read_rx, stdin, readerPc, tableVars, message_chan,
                   handlers, can_use_tool, callerLine, cmdSeq>>
    /\ UNCHANGED <<perm_sent, perm_val>>
    /\ UNCHANGED <<ivars, cvars>>

Outer_PermRequest == sessPc = "idle" /\ TakePermRequest

Outer_PermissionResponse(d) == sessPc = "idle" /\ TakePermissionResponse(d)

\* ClientMessage::UserMessage / Query: process_query_stream is entered; it
\* creates the token, stores it and builds the (lazy) stream
Outer_UserMessage ==
    /\ sessPc = "idle"
    /\ sessPc' = "turn"
    /\ current_cancel' = "some"
    /\ turns' = Append(turns, NewTurn)
    /\ streamPc' = "start"
    /\ UNCHANGED qvars
    /\ UNCHANGED <<subscribed, agent_stream, perm_rx, pending_permission,
                   perm_sent, perm_val>>
    /\ UNCHANGED <<ivars, cvars>>

\* interrupt or cancel with no turn in flight: current_cancel.take() is None
Outer_Interrupt ==
    /\ sessPc = "idle"
    /\ current_cancel' = "none"
    /\ turns' = IF current_cancel = "some"
                THEN [turns EXCEPT ![CurTurn].cancelled = TRUE]
                ELSE turns
    /\ UNCHANGED qvars
    /\ UNCHANGED <<sessPc, streamPc, subscribed, agent_stream, perm_rx,
                   pending_permission, perm_sent, perm_val>>
    /\ UNCHANGED <<ivars, cvars>>

Outer_Close ==
    /\ sessPc = "idle"
    /\ SocketClosed
    /\ UNCHANGED <<lockVars, callerPc, callerRet>>
    /\ UNCHANGED <<turns, streamPc, subscribed, agent_stream>>

\* the loop awaits the peer's decision in place before it selects again
Inner_PermRequestAwaitsDecision ==
    /\ sessPc = "turn"
    /\ Len(perm_rx) > 0
    /\ pending_permission' = Head(perm_rx)
    /\ perm_rx' = Tail(perm_rx)
    /\ sessPc' = "await_decision"
    /\ UNCHANGED qvars
    /\ UNCHANGED <<current_cancel, turns, streamPc, subscribed,
                   agent_stream, perm_sent, perm_val>>
    /\ UNCHANGED <<ivars, cvars>>

Inner_PermRequest == sessPc = "turn" /\ TakePermRequest

Inner_PermissionResponse(d) == sessPc = "turn" /\ TakePermissionResponse(d)

\* a user message that arrives during a turn starts another turn
Inner_UserMessageStartsTurn ==
    /\ sessPc = "turn"
    /\ current_cancel' = "some"
    /\ turns' = Append(turns, NewTurn)
    /\ streamPc' = "start"
    /\ UNCHANGED qvars
    /\ UNCHANGED <<sessPc, subscribed, agent_stream, perm_rx,
                   pending_permission, perm_sent, perm_val>>
    /\ UNCHANGED <<ivars, cvars>>

\* `_ => {}`: any other message is read from the socket and ignored
Inner_UserMessage ==
    /\ sessPc = "turn"
    /\ turns' = [turns EXCEPT ![CurTurn].ign = TRUE]
    /\ UNCHANGED qvars
    /\ UNCHANGED <<sessPc, current_cancel, streamPc, subscribed, agent_stream,
                   perm_rx, pending_permission, perm_sent, perm_val>>
    /\ UNCHANGED <<ivars, cvars>>

\* the stored token is taken and dropped without being cancelled
Inner_InterruptKeepsToken ==
    /\ sessPc = "turn"
    /\ current_cancel' = "none"
    /\ turns' = [turns EXCEPT ![CurTurn].intr = TRUE]
    /\ UNCHANGED qvars
    /\ UNCHANGED <<sessPc, streamPc, subscribed, agent_stream, perm_rx,
                   pending_permission, perm_sent, perm_val>>
    /\ UNCHANGED <<ivars, cvars>>

\* interrupt or cancel during a turn:
\* `if let Some(token) = current_cancel.take() { token.cancel(); }`
Inner_Interrupt ==
    /\ sessPc = "turn"
    /\ current_cancel' = "none"
    /\ turns' = [turns EXCEPT ![CurTurn].intr = TRUE,
                              ![CurTurn].cancelled =
                                  (@ \/ current_cancel = "some")]
    /\ UNCHANGED qvars
    /\ UNCHANGED <<sessPc, streamPc, subscribed, agent_stream, perm_rx,
                   pending_permission, perm_sent, perm_val>>
    /\ UNCHANGED <<ivars, cvars>>

\* the close of the socket ends the turn like a Result: Completed is
\* returned and the outer loop goes on
Inner_CloseReturnsCompleted ==
    /\ sessPc = "turn"
    /\ TurnCompleted([turns[CurTurn] EXCEPT !.st = "closed"])
    /\ callerPc' = "idle"
    /\ callerRet' = IF callerPc = "idle" THEN callerRet ELSE "dropped"
    /\ write_half' = IF write_half = Caller THEN NoTask ELSE write_half
    /\ UNCHANGED <<cliVars, read_rx, stdin, readerPc, tableVars, message_chan,
                   handlers, can_use_tool, callerLine, cmdSeq>>
    /\ UNCHANGED <<perm_rx, pending_permission, perm_sent, perm_val>>
    /\ UNCHANGED <<ivars, cvars>>

\* the socket closes during a turn: process_query_stream returns
\* WebSocketClosed, which drops the stream and whatever call it was in
Inner_Close ==
    /\ sessPc = "turn"
    /\ SocketClosed
    /\ turns' = [turns EXCEPT ![CurTurn].st = "closed", ![CurTurn].ign = FALSE]
    /\ StreamDropped
    /\ callerPc' = "idle"
    /\ callerRet' = IF callerPc = "idle" THEN callerRet ELSE "dropped"
    /\ write_half' = IF write_half = Caller THEN NoTask ELSE write_half

(***************************************************************************)
(* The stream of Session::query, polled by process_query_stream.           *)
(***************************************************************************)
\* client.lock().await; client_guard.send_input_message(input_msg)
StreamSendInput ==
    /\ sessPc = "turn"
    /\ streamPc = "start"
    /\ QueryWriteBegin
    /\ streamPc' = "sending"
    /\ UNCHANGED <<sessPc, current_cancel, turns, subscribed, agent_stream,
                   perm_rx, pending_permission, perm_sent, perm_val>>
    /\ UNCHANGED <<ivars, cvars>>

\* send_input_message has returned: on Err the stream yields it and ends,
\* and process_query_stream reports the error to the peer; on Ok the stream
\* subscribes to the protocol messages and drops the client guard
StreamSubscribe ==
    /\ sessPc = "turn"
    /\ streamPc = "sending"
    /\ callerPc = "idle"
    /\ IF callerRet = "ok"
       THEN /\ streamPc' = "loop"
            /\ subscribed' = TRUE
            /\ UNCHANGED <<sessPc, current_cancel, turns, agent_stream>>
       ELSE TurnCompleted([turns[CurTurn] EXCEPT !.st = "error"])
    /\ UNCHANGED qvars
    /\ UNCHANGED <<perm_rx, pending_permission, perm_sent, perm_val>>
    /\ UNCHANGED <<ivars, cvars>>

\* result = agent_stream.next(): an error Result ends the turn with an error
\* event, a Result is forwarded and ends the turn, anything else is forwarded
StreamForward ==
    /\ sessPc = "turn"
    /\ streamPc = "loop"
    /\ Len(agent_stream) > 0
    /\ LET m == Head(agent_stream) IN
         IF m.type = "result" /\ m.sub = "error"
         THEN TurnCompleted([turns[CurTurn] EXCEPT !.st = "error"])
         ELSE IF m.type = "result"
         THEN TurnCompleted([turns[CurTurn] EXCEPT
                               !.st = "result",
                               !.fwd = @ \cup {<<"result", m.sub>>}])
         ELSE /\ agent_stream' = Tail(agent_stream)
              /\ turns' = [turns EXCEPT
                             ![CurTurn].fwd = @ \cup {<<m.type, m.sub>>}]
              /\ UNCHANGED <<sessPc, current_cancel, streamPc, subscribed>>
    /\ UNCHANGED qvars
    /\ UNCHANGED <<perm_rx, pending_permission, perm_sent, perm_val>>
    /\ UNCHANGED <<ivars, cvars>>

\* _ = cancel_token.cancelled(): client.try_lock() succeeds (nothing else
\* holds the client), client_guard.interrupt() starts a control request
StreamCancelled ==
    /\ sessPc = "turn"
    /\ streamPc = "loop"
    /\ turns[CurTurn].cancelled
    /\ SendControlRequestBegin("interrupt")
    /\ streamPc' = "interrupting"
    /\ turns' = [turns EXCEPT ![CurTurn].intrId = request_counter']
    /\ UNCHANGED <<sessPc, current_cancel, subscribed, agent_stream,
                   perm_rx, pending_permission, perm_sent, perm_val>>
    /\ UNCHANGED <<ivars, cvars>>

\* interrupt() has returned, its result is discarded: the stream yields
\* Err(Interrupted) and ends; the peer is sent the error "Interrupted by user"
StreamInterrupted ==
    /\ sessPc = "turn"
    /\ streamPc = "interrupting"
    /\ callerPc = "idle"
    /\ TurnCompleted([turns[CurTurn] EXCEPT !.st = "interrupted"])
    /\ UNCHANGED qvars
    /\ UNCHANGED <<perm_rx, pending_permission, perm_sent, perm_val>>
    /\ UNCHANGED <<ivars, cvars>>

\* agent_stream.next() is None: the engine's reader has ended and nothing is
\* left to read.  The stream returns, process_query_stream sets
\* current_cancel to None and returns Completed
StreamEnded ==
    /\ sessPc = "turn"
    /\ streamPc = "loop"
    /\ Len(agent_stream) = 0
    /\ readerPc = "done"
    /\ TurnCompleted([turns[CurTurn] EXCEPT !.st = "end"])
    /\ UNCHANGED qvars
    /\ UNCHANGED <<perm_rx, pending_permission, perm_sent, perm_val>>
    /\ UNCHANGED <<ivars, cvars>>

NextSession ==
    \/ \E m \in CliSessionMessages :
          emitted < MaxInbound /\ CliEmit(m) /\ UNCHANGED svars
    \/ ReaderControlResponse
    \/ ReaderControlRequest
    \/ ReaderPublish
    \/ ReaderEof
    \/ CallerAcquire
    \/ CallerWriteDone
    \/ CallerResolve
    \/ CallerTimeout
    \/ \E h \in HandlerIds : HandlerAcquire(h)
    \/ \E h \in HandlerIds : HandlerWriteDone(h)
    \/ \E h \in 1..MaxInbound : PermSend(h)
    \/ \E h \in 1..MaxInbound : PermReturn(h)
    \/ \E h \in 1..MaxInbound : PermTimeout(h)
    \/ Outer_PermRequest
    \/ \E d \in Decisions : Outer_PermissionResponse(d)
    \/ Len(turns) < MaxTurns /\ Outer_UserMessage
    \/ Outer_Interrupt
    \/ Outer_Close
    \/ Inner_PermRequest
    \/ \E d \in Decisions : Inner_PermissionResponse(d)
    \/ Inner_UserMessage
    \/ Inner_Interrupt
    \/ Inner_Close
    \/ StreamSendInput
    \/ StreamSubscribe
    \/ StreamForward
    \/ StreamCancelled
    \/ StreamInterrupted
    \/ StreamEnded
    \/ CliExit

\* the closure runs in a spawned handler task, which the runtime schedules,
\* and its 300 s timer fires when nothing else has completed it
SpecSession ==
    /\ InitSession
    /\ [][NextSession]_vars
    /\ \A h \in 1..MaxInbound :
         WF_vars(PermSend(h)) /\ WF_vars(PermReturn(h)) /\ WF_vars(PermTimeout(h))

(***************************************************************************)
(* Claims about the session.                                               *)
(***************************************************************************)
TurnIds == 1..Len(turns)

ActiveTurns == {t \in TurnIds : turns[t].st = "active"}

\* user lines handed to the engine so far (every command is a user line or
\* a control request)
UserLinesIssued == cmdSeq - request_counter

\* C5: a session has at most one turn that has not ended; a user message
\* that arrives during a turn starts no turn and hands no line to the CLI
\* (it is not queued either: the lines handed over never outnumber the turns
\* that process_query_stream has started, and only the latest can be active).
C5_OneTurnAtATime ==
    /\ Cardinality(ActiveTurns) <= 1
    /\ \A t \in TurnIds : turns[t].st = "active" => t = CurTurn /\ sessPc = "turn"
    /\ UserLinesIssued <= Len(turns)
    /\ sessPc = "idle" => ActiveTurns = {}

\* the first turn has ended with its Result; during the second a user
\* message arrived and was ignored: two turns, two user lines
C5_Witness ==
    /\ Len(turns) = 2
    /\ turns[1].st = "result"
    /\ turns[2].st = "active"
    /\ turns[2].ign
    /\ streamPc = "loop"
    /\ UserLinesIssued = 2

\* handlers whose permission round trip is awaiting the peer's decision
Awaiting == {h \in HandlerIds : RespRxAlive(h)}

\* C6 (as claimed): while a permission request is awaiting the peer's
\* decision, its response sink stays where it is until it is taken for a
\* response; a second request neither replaces nor disturbs it.
C6_SecondRequestLeavesPending ==
    [][(pending_permission \in Awaiting)
          => pending_permission' \in {pending_permission, 0}]_vars

ReaderStep == ReaderControlResponse \/ ReaderControlRequest \/ ReaderPublish

\* C7: while a permission request awaits the peer's decision nothing
\* unrelated is blocked: the write lock is not held by a task suspended on a
\* permission, the reader takes the CLI's next message, the loop still
\* handles interrupts and permission responses, the stream forwards what
\* was published to it, and the caller's control request goes on.
C7_PendingPermissionBlocksNothing ==
    Awaiting # {} =>
      /\ write_half[1] = "handler" => handlers[write_half[2]].pc = "write"
      /\ (readerPc = "run" /\ Len(read_rx) > 0) => ENABLED ReaderStep
      /\ sessPc # "closed" =>
           /\ ENABLED (Outer_Interrupt \/ Inner_Interrupt)
           /\ \A d \in Decisions :
                ENABLED (Outer_PermissionResponse(d) \/ Inner_PermissionResponse(d))
      /\ (streamPc = "loop" /\ Len(agent_stream) > 0) => ENABLED StreamForward
      /\ (streamPc = "loop" /\ turns[CurTurn].cancelled) => ENABLED StreamCancelled
      /\ (callerPc \in {"scr_lock", "w_lock"} /\ write_half = NoTask)
            => ENABLED CallerAcquire
      /\ write_half = Caller => ENABLED CallerWriteDone
      /\ (callerPc = "scr_wait" /\ sinkVal # "empty") => ENABLED CallerResolve

\* a permission request awaits the peer while an assistant message is ready
\* to be forwarded and the interrupt control request is being written
C7_Witness ==
    /\ Awaiting # {}
    /\ pending_permission \in Awaiting
    /\ streamPc = "interrupting"
    /\ write_half = Caller
    /\ Len(read_rx) > 0

C10_InterruptedTurnDeliversResult ==
    [][(/\ sessPc = "turn"
        /\ streamPc = "interrupting"
        /\ callerRet = "ok"
        /\ turns'[CurTurn].st = "interrupted"
        /\ \E i \in 1..Len(agent_stream) :
              agent_stream[i].type = "result" /\ agent_stream[i].sub = "interrupted")
          => (/\ <<"result", "interrupted">> \in turns'[CurTurn].fwd
              /\ sessPc' = "idle")]_vars

\* the step in which the stream takes the head of agent_stream
StreamTakesHead ==
    /\ sessPc = "turn"
    /\ streamPc = "loop"
    /\ Len(agent_stream) > 0
    /\ sessPc' # "closed"
    /\ \/ agent_stream' = Tail(agent_stream)
       \/ turns'[CurTurn].st \in {"result", "error"}

\* C11 (as claimed): every protocol message the turn's stream takes, up to
\* and including the Result that ends the turn, is forwarded to the peer in
\* a message envelope.
C11_EveryMessageForwarded ==
    [][StreamTakesHead =>
          <<Head(agent_stream).type, Head(agent_stream).sub>>
              \in turns'[CurTurn].fwd]_vars

\* C12 (as claimed): a turn that ended because the CLI's stdout reached EOF
\* is the session's last: the child is dead and the socket closed, so no
\* later turn is started.
C12_EofEndsSession ==
    \A t \in TurnIds : turns[t].st = "end" => t = Len(turns)

\* C13: when the peer closes the socket, between turns or during one, the
\* session loop exits and the child is killed: the loop can take the close
\* whenever it is running, a turn cut by the close leaves a closed session,
\* and a closed session has no child, no turn and no stream.
C13_CloseExitsAndKills ==
    /\ sessPc \in {"idle", "turn"} => ENABLED (Outer_Close \/ Inner_Close)
    /\ \A t \in TurnIds : turns[t].st = "closed" => sessPc = "closed"
    /\ sessPc = "closed" =>
          /\ ~cliAlive
          /\ current_cancel = "none"
          /\ ActiveTurns = {}
          /\ streamPc = "none"
          /\ ~ENABLED Outer_UserMessage

\* the socket closed while the turn's stream was inside a call of the engine
C13_Witness ==
    /\ sessPc = "closed"
    /\ Len(turns) = 2
    /\ turns[1].st = "result"
    /\ turns[2].st = "closed"
    /\ callerRet = "dropped"

\* C14 (as claimed): once the client has been disconnected the child process
\* has been killed and the engine's reader task has ended.
C14_DisconnectKillsChild ==
    callerPc = "disconnected" => ~cliAlive /\ readerPc = "done"

(***************************************************************************)
(* Part III.  handle_socket before its message loop: Phase 1 waits for the *)
(* peer's init message, Phase 2 creates the session (ClaudeClient::connect *)
(* spawns the CLI and sends the initialize request) and, for a new         *)
(* session, waits for the CLI's System init message.                       *)
(***************************************************************************)
MaxInitInbound == 3

loopVars == <<current_cancel, turns, streamPc, perm_rx, pending_permission,
              perm_sent, perm_val, cvars>>

\* what ws_receiver.next() can yield within the 30 s, and "deadline" for the
\* timeout; a text frame is named by the ClientMessage it parses to
InitMessages == {"user_session_init", "workspace_init"}

OtherMessages == {"user_message", "permission_response", "interrupt"}

Frames ==
    InitMessages \cup OtherMessages
    \cup {"invalid_json", "binary_not_utf8", "close", "ping", "pong",
          "ws_error", "stream_end", "deadline"}

InitOk(is_workspace_init, is_resume) ==
    [ok |-> TRUE, err |-> "none", is_workspace_init |-> is_workspace_init,
     is_resume |-> is_resume]

\* Err(SessionError), and "continue" for a frame the loop skips
InitErr(e) ==
    [ok |-> FALSE, err |-> e, is_workspace_init |-> FALSE,
     is_resume |-> FALSE]

\* one round of the loop of wait_for_init_message on frame f: "continue",
\* Err(SessionError) or Ok(UserSessionInitData)
wait_for_init_messageAcceptsAny(f, resume) ==
    CASE f \in {"ping", "pong"} -> InitErr("continue")
      [] f = "close" -> InitErr("ConnectionClosed")
      [] f = "stream_end" -> InitErr("ConnectionClosed")
      [] f = "ws_error" -> InitErr("WebSocketError")
      [] f = "deadline" -> InitErr("InitTimeout")
      [] f \in {"invalid_json", "binary_not_utf8"} -> InitErr("ParseError")
      [] f = "workspace_init" -> InitOk(TRUE, resume)
      [] OTHER -> InitOk(FALSE, resume)

wait_for_init_message(f, resume) ==
    CASE f \in {"ping", "pong"} -> InitErr("continue")
      [] f = "close" -> InitErr("ConnectionClosed")
      [] f = "stream_end" -> InitErr("ConnectionClosed")
      [] f = "ws_error" -> InitErr("WebSocketError")
      [] f = "deadline" -> InitErr("InitTimeout")
      [] f \in {"invalid_json", "binary_not_utf8"} -> InitErr("ParseError")
      [] f = "user_session_init" -> InitOk(FALSE, resume)
      [] f = "workspace_init" -> InitOk(TRUE, resume)
      [] OTHER -> InitErr("UnexpectedMessage")

\* AgentEvent::Error { is_fatal: true } handed to the writer task
send_error_and_close(e) == "error_fatal"

\* the failure reply, in the format of the peer's init message
send_init_errorAlwaysSessionInit(is_workspace_init) ==
    "session_init_failure"

send_init_error(is_workspace_init) ==
    IF is_workspace_init
    THEN "workspace_init_output_error"
    ELSE "session_init_failure"

\* the success reply of lines 260-325
send_init_response(is_workspace_init) ==
    IF is_workspace_init
    THEN "workspace_init_output"
    ELSE "session_init_success"

\* a connection just accepted: no session, no child process
InitSocket ==
    /\ cliAlive = FALSE
    /\ emitted = 0
    /\ read_rx = <<>>
    /\ stdin = <<>>
    /\ write_half = NoTask
    /\ readerPc = "none"
    /\ pending_requests = {}
    /\ request_counter = 0
    /\ fulfilled = <<>>
    /\ sinkVal = "empty"
    /\ message_chan = <<>>
    /\ handlers = <<>>
    /\ can_use_tool = TRUE
    /\ callerPc = "idle"
    /\ callerLine = NoLine
    /\ callerRet = "none"
    /\ cmdSeq = 0
    /\ sessPc = "none"
    /\ current_cancel = "none"
    /\ turns = <<>>
    /\ streamPc = "none"
    /\ subscribed = FALSE
    /\ agent_stream = <<>>
    /\ perm_rx = <<>>
    /\ pending_permission = 0
    /\ perm_sent = {}
    /\ perm_val = {}
    /\ initPc = "wait_init"
    /\ init_frame = "none"
    /\ init_data = NoInit
    /\ init_reply = "none"
    /\ NoCodec

\* the CLI before the loop: it answers the control requests it has read
\* and, once it has a user line, reports its System init, and may go on to
\* an assistant message or a Result
CliInitMessages ==
    [type : {"control_response"}, id : IdsOnStdin,
     sub : {"success", "error"}, wf : {TRUE}]
    \cup (IF UserLinesOnStdin = {} THEN {} ELSE
          [type : {"system"}, id : {0}, sub : {"init"}, wf : {TRUE}]
          \cup [type : {"assistant"}, id : {0}, sub : {"-"}, wf : {TRUE}]
          \cup [type : {"result"}, id : {0}, sub : {"success", "error"},
                wf : {TRUE}])

\* Phase 1, lines 126-136: one frame from the peer
Phase1Frame(f, resume) ==
    /\ initPc = "wait_init"
    /\ init_frame' = f
    /\ LET r == wait_for_init_message(f, resume) IN
         IF r.err = "continue"
         THEN UNCHANGED <<initPc, init_data, init_reply>>
         ELSE IF ~r.ok
         THEN /\ init_reply' = send_error_and_close(r.err)
              /\ initPc' = "ended"
              /\ UNCHANGED init_data
         ELSE /\ init_data' = r
              /\ initPc' = "create"
              /\ UNCHANGED init_reply
    /\ UNCHANGED qvars
    /\ UNCHANGED <<sessPc, subscribed, agent_stream, loopVars>>

\* the Err arms of Phase 2: send_init_error, the kill of the child when the
\* process handle has been taken, return
InitFailed(kill) ==
    /\ init_reply' = send_init_error(init_data.is_workspace_init)
    /\ initPc' = "ended"
    /\ cliAlive' = IF kill THEN FALSE ELSE cliAlive
    /\ subscribed' = FALSE
    /\ agent_stream' = <<>>
    /\ UNCHANGED <<emitted, read_rx, stdin, lockVars, readerPc, tableVars,
                   message_chan, handlers, can_use_tool, callerVars>>
    /\ UNCHANGED <<sessPc, loopVars, init_frame, init_data>>

\* Session::new / Session::resume, ClaudeClient::connect: the transport
\* fails to spawn the CLI
ConnectSpawnFailed ==
    /\ initPc = "create"
    /\ InitFailed(FALSE)

\* the transport spawns the CLI and Query::start spawns the reader task
ConnectSpawn ==
    /\ initPc = "create"
    /\ initPc' = "spawned"
    /\ cliAlive' = TRUE
    /\ readerPc' = "run"
    /\ UNCHANGED <<emitted, read_rx, stdin, lockVars, tableVars,
                   message_chan, handlers, can_use_tool, callerVars>>
    /\ UNCHANGED <<sessPc, subscribed, agent_stream, loopVars, init_frame,
                   init_data, init_reply>>

\* query.initialize(): the initialize control request
ConnectInitialize ==
    /\ initPc = "spawned"
    /\ SendControlRequestBegin("initialize")
    /\ initPc' = "connecting"
    /\ UNCHANGED <<sessPc, subscribed, agent_stream, loopVars, init_frame,
                   init_data, init_reply>>

\* initialize failed: connect returns Err through `?` and so does the
\* session constructor
ConnectFailed ==
    /\ initPc = "connecting"
    /\ callerPc = "idle"
    /\ callerRet # "ok"
    /\ InitFailed(FALSE)

\* the session exists; a resumed session does not wait for System init
SessionCreated ==
    /\ initPc = "connecting"
    /\ callerPc = "idle"
    /\ callerRet = "ok"
    /\ initPc' = IF init_data.is_resume THEN "reply" ELSE "sys_init"
    /\ UNCHANGED qvars
    /\ UNCHANGED <<sessPc, subscribed, agent_stream, loopVars, init_frame,
                   init_data, init_reply>>

\* wait_for_session_init: the empty user message
SessionInitSendEmpty ==
    /\ initPc = "sys_init"
    /\ QueryWriteBegin
    /\ initPc' = "sys_sending"
    /\ UNCHANGED <<sessPc, subscribed, agent_stream, loopVars, init_frame,
                   init_data, init_reply>>

\* "Failed to send empty query"
SessionInitSendFailed ==
    /\ initPc = "sys_sending"
    /\ callerPc = "idle"
    /\ callerRet # "ok"
    /\ InitFailed(TRUE)

\* let _ = client_guard.interrupt().await
SessionInitInterrupt ==
    /\ initPc = "sys_sending"
    /\ callerPc = "idle"
    /\ callerRet = "ok"
    /\ SendControlRequestBegin("interrupt")
    /\ initPc' = "sys_interrupting"
    /\ UNCHANGED <<sessPc, subscribed, agent_stream, loopVars, init_frame,
                   init_data, init_reply>>

\* interrupt has returned, its result is ignored; the function subscribes
\* to the protocol messages and drops the client guard
SessionInitSubscribe ==
    /\ initPc = "sys_interrupting"
    /\ callerPc = "idle"
    /\ initPc' = "sys_wait"
    /\ subscribed' = TRUE
    /\ UNCHANGED qvars
    /\ UNCHANGED <<sessPc, agent_stream, loopVars, init_frame, init_data,
                   init_reply>>

\* stream.next() yields a message: System init ends the wait, an error
\* Result fails it, anything else is skipped
SessionInitNext ==
    /\ initPc = "sys_wait"
    /\ Len(agent_stream) > 0
    /\ LET m == Head(agent_stream) IN
         IF m.type = "system" /\ m.sub = "init"
         THEN /\ initPc' = "reply"
              /\ subscribed' = FALSE
              /\ agent_stream' = <<>>
              /\ UNCHANGED qvars
              /\ UNCHANGED <<sessPc, loopVars, init_frame, init_data,
                             init_reply>>
         ELSE IF m.type = "result" /\ m.sub = "error"
         THEN InitFailed(TRUE)
         ELSE /\ agent_stream' = Tail(agent_stream)
              /\ UNCHANGED qvars
              /\ UNCHANGED <<sessPc, subscribed, loopVars, ivars>>

\* "Stream ended unexpectedly"
SessionInitStreamEnded ==
    /\ initPc = "sys_wait"
    /\ Len(agent_stream) = 0
    /\ readerPc = "done"
    /\ InitFailed(TRUE)

\* "Timeout waiting for session initialization": the 30 s pass with no
\* message ready
SessionInitTimeout ==
    /\ initPc = "sys_wait"
    /\ Len(agent_stream) = 0
    /\ InitFailed(TRUE)

\* the success reply, then the message loop
EnterLoop ==
    /\ initPc = "reply"
    /\ init_reply' = send_init_response(init_data.is_workspace_init)
    /\ initPc' = "loop"
    /\ sessPc' = "idle"
    /\ UNCHANGED qvars
    /\ UNCHANGED <<subscribed, agent_stream, loopVars, init_frame, init_data>>

\* `if let Err(e) = ws_sender.send(WsMessage::Text(json)).await { return; }`:
\* the channel to the writer task is closed (the task, which owns the
\* receiver, is gone); handle_socket logs the error and returns
ReplySendFailed ==
    /\ initPc = "reply"
    /\ initPc' = "returned"
    /\ UNCHANGED qvars
    /\ UNCHANGED <<sessPc, subscribed, agent_stream, loopVars, init_frame,
                   init_data, init_reply>>

NextInit ==
    \/ \E f \in Frames, resume \in BOOLEAN : Phase1Frame(f, resume)
    \/ ConnectSpawnFailed
    \/ ConnectSpawn
    \/ ConnectInitialize
    \/ ConnectFailed
    \/ SessionCreated
    \/ SessionInitSendEmpty
    \/ SessionInitSendFailed
    \/ SessionInitInterrupt
    \/ SessionInitSubscribe
    \/ SessionInitNext
    \/ SessionInitStreamEnded
    \/ SessionInitTimeout
    \/ EnterLoop
    \/ ReplySendFailed
    \/ \E m \in CliInitMessages :
          emitted < MaxInitInbound /\ CliEmit(m) /\ UNCHANGED svars
    \/ CliExit
    \/ ReaderControlResponse
    \/ ReaderPublish
    \/ ReaderEof
    \/ CallerAcquire
    \/ CallerWriteDone
    \/ CallerResolve
    \/ CallerTimeout

SpecInit == InitSocket /\ [][NextInit]_vars

\* the peer's first message that the wait did not skip was an init message
FirstIsInit == init_frame \in InitMessages

\* C15: no session and no CLI process exists unless the first message of
\* the peer was user_session_init or workspace_init; after any other first
\* message, a close, or 30 s without one, the bridge has sent an error
\* event and the connection has ended.
C15_InitMessageFirst ==
    /\ (cliAlive \/ readerPc # "none" \/ request_counter > 0
          \/ sessPc # "none" \/ initPc \notin {"wait_init", "ended"})
         => FirstIsInit /\ init_data.ok
    /\ init_frame \in Frames \ (InitMessages \cup {"ping", "pong"})
         => /\ initPc = "ended"
            /\ init_reply = "error_fatal"
            /\ ~init_data.ok
            /\ ~cliAlive /\ readerPc = "none" /\ sessPc = "none"

C15_Witness ==
    /\ init_frame = "user_message"
    /\ initPc = "ended"
    /\ init_reply = "error_fatal"
    /\ ~cliAlive

\* C16: when creating or resuming the session fails, or the wait for
\* System init fails, the bridge has replied with the failure variant in
\* the format of the peer's init message and the connection has ended
\* without the loop; the loop is entered only after the success reply.
C16_InitFailureReply ==
    /\ (initPc = "ended" /\ init_data.ok)
         => /\ init_reply = IF init_frame = "workspace_init"
                            THEN "workspace_init_output_error"
                            ELSE "session_init_failure"
            /\ sessPc = "none"
    /\ initPc = "loop"
         => /\ sessPc = "idle"
            /\ init_reply = IF init_frame = "workspace_init"
                            THEN "workspace_init_output"
                            ELSE "session_init_success"
    /\ sessPc # "none" => initPc = "loop"

C16_Witness ==
    /\ initPc = "ended"
    /\ init_frame = "workspace_init"
    /\ init_reply = "workspace_init_output_error"
    /\ ~init_data.is_resume
    /\ UserLinesOnStdin # {}
    /\ ~cliAlive

(***************************************************************************)
(* Part IV.  Further claims about the engine, under SpecQuery.             *)
(***************************************************************************)
\* the pieces on stdin that belong to a control_request line with this id
RequestChunks(id, part) ==
    {j \in 1..Len(stdin) : /\ stdin[j].line.type = "control_request"
                           /\ stdin[j].line.id = id
                           /\ stdin[j].part = part}

\* a step in which send_control_request builds its request line
AllocatesId == callerPc = "idle" /\ callerPc' = "scr_lock"

\* C17: every call of send_control_request takes the counter up by exactly
\* one and builds its line with that new id, an id no earlier call was
\* given, and each request id is in at most one outbound control_request
\* line.
C17_RequestIdsDistinct ==
    [][/\ AllocatesId =>
            /\ request_counter' = request_counter + 1
            /\ callerLine'.id = request_counter'
            /\ callerLine'.id \notin RequestIds
            /\ callerLine'.id \notin pending_requests
       /\ request_counter' >= request_counter
       /\ \A id \in 1..MaxRequests + 1 :
             /\ Cardinality(RequestChunks(id, "head")') <= 1
             /\ Cardinality(RequestChunks(id, "tail")') <= 1]_vars

C17_Witness ==
    /\ request_counter = 2
    /\ Cardinality(RequestChunks(1, "tail")) = 1
    /\ Cardinality(RequestChunks(2, "tail")) = 1

\* the reader matches the control_response at the head of its queue to an
\* entry of the pending table
MatchesPending ==
    /\ readerPc = "run"
    /\ Len(read_rx) > 0
    /\ Head(read_rx).type = "control_response"
    /\ Head(read_rx).id \in pending_requests
    /\ read_rx' = Tail(read_rx)

\* send_control_request returns with the response it was handed
ReturnsResponse ==
    callerPc = "scr_wait" /\ sinkVal # "empty" /\ callerPc' = "idle"

\* C18: a control_response matched to a pending request is handed to the
\* call of send_control_request that made the request and its entry is
\* removed; the call returns a ControlProtocol error when the subtype is
\* error and the payload otherwise.
C18_MatchedResponseReturned ==
    [][/\ MatchesPending =>
            /\ Head(read_rx).id \notin pending_requests'
            /\ RxAlive(Head(read_rx).id)
            /\ sinkVal' = Head(read_rx).sub
       /\ ReturnsResponse =>
            /\ request_counter \notin pending_requests
            /\ callerRet' = IF sinkVal = "error"
                            THEN "control_protocol"
                            ELSE "ok"]_vars

(***************************************************************************)
(* Part V.  The framing of what is written to the CLI.  A string is a      *)
(* sequence of characters; "nl" is the newline, "a" any other character.   *)
(* The argument of a path that serialises JSON itself is the text of a     *)
(* string inside the JSON value (a prompt, a field of a request).          *)
(***************************************************************************)
MaxLen == 3

Chars == {"a", "nl"}

Strings == UNION {[1..k -> Chars] : k \in 0..MaxLen}

\* the paths that build the line from a JSON value and "\n"
JsonLinePaths == {"send_control_request", "handle_control_request",
                  "stream_input"}

ClientPaths == {"query_string", "query_stream"}

RawPaths == {"Query::write", "WriteHalf::write"}

Paths == JsonLinePaths \cup ClientPaths \cup RawPaths
         \cup {"write_with_newline", "write_json"}

\* serde_json writes a newline inside a string as the two characters \ n
RECURSIVE escape(_)
escape(s) ==
    IF s = <<>>
    THEN <<>>
    ELSE (IF Head(s) = "nl" THEN <<"\\", "n">> ELSE <<Head(s)>>)
         \o escape(Tail(s))

\* serde_json::to_string of a value holding the text s: compact, one line
to_string(s) == <<"\"">> \o escape(s) \o <<"\"">>

\* WriteHalf::write: write_all(data), flush
write(data) == data

\* WriteHalf::write_with_newline: write_all(data), write_all("\n"), flush
write_with_newline(data) == data \o <<"nl">>

\* WriteHalf::write_json: to_string, write_all(json), write_all("\n"), flush
write_jsonNoNewline(message) == to_string(message)

write_json(message) == to_string(message) \o <<"nl">>

\* Query::write: write_guard.write(data)
Query_write(data) == write(data)

\* a call is about to be made with some argument
InitWrite ==
    /\ cliAlive = TRUE
    /\ emitted = 0
    /\ read_rx = <<>>
    /\ stdin = <<>>
    /\ write_half = NoTask
    /\ readerPc = "run"
    /\ pending_requests = {}
    /\ request_counter = 0
    /\ fulfilled = <<>>
    /\ sinkVal = "empty"
    /\ message_chan = <<>>
    /\ handlers = <<>>
    /\ can_use_tool = TRUE
    /\ callerPc = "idle"
    /\ callerLine = NoLine
    /\ callerRet = "none"
    /\ cmdSeq = 0
    /\ sessPc = "none"
    /\ current_cancel = "none"
    /\ turns = <<>>
    /\ streamPc = "none"
    /\ subscribed = FALSE
    /\ agent_stream = <<>>
    /\ perm_rx = <<>>
    /\ pending_permission = 0
    /\ perm_sent = {}
    /\ perm_val = {}
    /\ initPc = "none"
    /\ init_frame = "none"
    /\ init_data = NoInit
    /\ init_reply = "none"
    /\ wcall \in [path : Paths, data : Strings, done : {FALSE}]
    /\ wire = <<>>
    /\ yielded = <<>>
    /\ consumerPc = "open"
    /\ NoOutput
    /\ NoObjects

\* the call returns Ok having put these bytes on stdin
Written(bytes) ==
    /\ ~wcall.done
    /\ wire' = bytes
    /\ wcall' = [wcall EXCEPT !.done = TRUE]
    /\ UNCHANGED <<qvars, sessVars, yielded, consumerPc, bvars, kvars>>

\* serde_json::to_string(..)? + "\n", then write_guard.write
WriteJsonLine ==
    /\ wcall.path \in JsonLinePaths
    /\ Written(write(to_string(wcall.data) \o <<"nl">>))

\* query_string / query_stream: to_string(..)? + "\n", then query.write
WriteQuery ==
    /\ wcall.path \in ClientPaths
    /\ Written(Query_write(to_string(wcall.data) \o <<"nl">>))

\* Query::write and WriteHalf::write called with the caller's own data
WriteRaw ==
    /\ wcall.path \in RawPaths
    /\ Written(IF wcall.path = "Query::write"
               THEN Query_write(wcall.data)
               ELSE write(wcall.data))

WriteWithNewline ==
    /\ wcall.path = "write_with_newline"
    /\ Written(write_with_newline(wcall.data))

WriteJson ==
    /\ wcall.path = "write_json"
    /\ Written(write_json(wcall.data))

NextWrite ==
    \/ WriteJsonLine
    \/ WriteQuery
    \/ WriteRaw
    \/ WriteWithNewline
    \/ WriteJson

SpecWrite == InitWrite /\ [][NextWrite]_vars

\* one line: it ends with a newline and has no other
Framed(bytes) ==
    /\ Len(bytes) > 0
    /\ bytes[Len(bytes)] = "nl"
    /\ \A i \in 1..Len(bytes) - 1 : bytes[i] # "nl"

\* C19 (as claimed): on every write path what a call has written is one
\* line, terminated by exactly one newline and with no embedded newline.
C19_EveryPathFramed ==
    wcall.done => Framed(wire)

\* C19 (amended): the paths that serialise the JSON themselves write one
\* line with exactly one newline at its end; Query::write and
\* WriteHalf::write write their argument unchanged and write_with_newline
\* writes its argument followed by one newline.
C19_JsonPathsFramed ==
    wcall.done =>
        /\ wcall.path \in JsonLinePaths \cup ClientPaths \cup {"write_json"}
             => Framed(wire)
        /\ wcall.path \in RawPaths => wire = wcall.data
        /\ wcall.path = "write_with_newline"
             => wire = wcall.data \o <<"nl">>

C19_Witness ==
    /\ wcall.done
    /\ wcall.path = "write_json"
    /\ wcall.data = <<"a", "nl">>
    /\ Framed(wire)

(***************************************************************************)
(* Part VI.  Lines of the CLI that do not parse.  ReadHalf::read_messages  *)
(* decodes each line of stdout and drops the ones that fail; the stream of *)
(* ClaudeClient::receive_messages runs parse_message on what the reader    *)
(* task passes on.                                                         *)
(***************************************************************************)
MaxLines == 3

\* what the CLI can write on one line; wf FALSE: a field the type requires
\* is missing (for an assistant message with sub "block": a content block
\* of unknown type)
StdoutLines ==
    [type : {"assistant"}, id : {emitted + 1}, sub : {"-"}, wf : BOOLEAN]
    \cup [type : {"assistant"}, id : {emitted + 1}, sub : {"block"},
          wf : {FALSE}]
    \cup [type : {"result"}, id : {emitted + 1}, sub : {"success"},
          wf : BOOLEAN]
    \cup [type : {"user"}, id : {emitted + 1}, sub : {"-"}, wf : BOOLEAN]
    \cup [type : {"invalid_json", "unknown"}, id : {emitted + 1},
          sub : {"-"}, wf : {FALSE}]

\* serde_json::from_str::<ProtocolMessage>: the type must be known; an
\* assistant, system or result message must have its required fields and
\* known content blocks, a user or stream_event object is taken as it is
from_str(line) ==
    /\ line.type \in KnownTypes \cup {"control_request", "control_response"}
    /\ line.wf \/ line.type \in {"user", "stream_event"}

\* one round of the loop of read_messages: Ok(msg) is queued, Err(e) is
\* logged and the loop goes on
ReadMessagesLine(line) ==
    /\ IF from_str(line)
       THEN CliEmit(line)
       ELSE /\ cliAlive
            /\ emitted' = emitted + 1
            /\ UNCHANGED <<cliAlive, read_rx, stdin, lockVars, readerPc,
                           tableVars, message_chan, handlers, can_use_tool,
                           callerVars>>
    /\ UNCHANGED svars

NextStream ==
    \/ \E line \in StdoutLines : emitted < MaxLines /\ ReadMessagesLine(line)
    \/ CliExit
    \/ ReaderRegular
    \/ ReaderEof
    \/ ConsumerRecv

SpecStream == InitQuery /\ [][NextStream]_vars

\* C20: a line of the CLI that fails to parse is skipped and is never
\* fatal: the stream the consumer reads yields no error and does not end,
\* and it yields the valid messages in the order the CLI wrote them.
C20_ParseFailureNeverFatal ==
    /\ consumerPc = "open"
    /\ \A i \in 1..Len(yielded) : yielded[i] # ParseErr
    /\ \A i, j \in 1..Len(yielded) : i < j => yielded[i] < yielded[j]

(***************************************************************************)
(* Part VII.  The way from the CLI to the peer while a turn runs, with the *)
(* channels that can fill.  The capacities (100 in the code) are scaled to *)
(* Cap so that a burst of MaxBurst messages fills them.  The sink of the   *)
(* socket may accept a message, fail, or take for ever: the writer task    *)
(* puts no time limit on ws_sender.send.                                   *)
(***************************************************************************)
Cap == 1

MaxBurst == 5

\* the error event of send_error, among message ids
ErrEvent == -1

\* the CLI streams assistant messages to a subscribed turn
BurstMessages ==
    [type : {"assistant"}, id : {emitted + 1}, sub : {"-"}, wf : {TRUE}]

\* the reader publishes on the broadcast bus: with no subscriber the event
\* is lost; a subscription that already holds Cap events loses its oldest
\* event and is told so at its next poll
BusPublish ==
    /\ readerPc = "run"
    /\ Len(read_rx) > 0
    /\ Head(read_rx).type \notin {"control_response", "control_request"}
    /\ read_rx' = Tail(read_rx)
    /\ IF ~subscribed
       THEN /\ dropped' = dropped + 1
            /\ UNCHANGED <<agent_stream, lagged>>
       ELSE IF Len(agent_stream) < Cap
       THEN /\ agent_stream' = Append(agent_stream, Head(read_rx))
            /\ UNCHANGED <<lagged, dropped>>
       ELSE /\ agent_stream' = Append(Tail(agent_stream), Head(read_rx))
            /\ lagged' = lagged + 1
            /\ dropped' = dropped + 1
    /\ UNCHANGED <<cliVars, stdin, lockVars, readerPc, tableVars,
                   message_chan, handlers, can_use_tool, callerVars>>
    /\ UNCHANGED <<sessPc, current_cancel, turns, streamPc, subscribed,
                   perm_rx, pending_permission, perm_sent, perm_val, ivars>>
    /\ UNCHANGED <<kvars, wcall, wire, yielded, consumerPc, ws_chan, writer,
                   peer_got, held>>

\* result = stream.next() is Some(Ok(msg)): send_message is called with it
LoopTake ==
    /\ sessPc = "turn"
    /\ streamPc = "loop"
    /\ held = 0
    /\ lagged = 0
    /\ Len(agent_stream) > 0
    /\ held' = Head(agent_stream).id
    /\ agent_stream' = Tail(agent_stream)
    /\ UNCHANGED qvars
    /\ UNCHANGED <<sessPc, current_cancel, turns, streamPc, subscribed,
                   perm_rx, pending_permission, perm_sent, perm_val, ivars>>
    /\ UNCHANGED <<kvars, wcall, wire, yielded, consumerPc, ws_chan, writer,
                   peer_got, lagged, dropped>>

\* result is Some(Err(e)), the lag told to the subscription: the stream of
\* the turn ends and send_error is called
LoopLagged ==
    /\ sessPc = "turn"
    /\ streamPc = "loop"
    /\ held = 0
    /\ lagged > 0
    /\ held' = ErrEvent
    /\ lagged' = 0
    /\ dropped' = dropped + Len(agent_stream)
    /\ turns' = [turns EXCEPT ![CurTurn].st = "error"]
    /\ StreamDropped
    /\ UNCHANGED qvars
    /\ UNCHANGED <<sessPc, current_cancel, perm_rx, pending_permission,
                   perm_sent, perm_val, ivars>>
    /\ UNCHANGED <<kvars, wcall, wire, yielded, consumerPc, ws_chan, writer,
                   peer_got>>

\* the event joins the writer's channel when it has room
SendQueues ==
    /\ held # 0
    /\ writer.pc # "closed"
    /\ ws_chan' = Append(ws_chan, held)
    /\ held' = 0
    /\ IF held = ErrEvent
       THEN sessPc' = "idle" /\ current_cancel' = "none"
       ELSE UNCHANGED <<sessPc, current_cancel>>
    /\ UNCHANGED qvars
    /\ UNCHANGED <<turns, streamPc, subscribed, agent_stream, perm_rx,
                   pending_permission, perm_sent, perm_val, ivars>>
    /\ UNCHANGED <<kvars, wcall, wire, yielded, consumerPc, writer, peer_got,
                   lagged, dropped>>

\* try_send in place of send(..).await: a full channel loses the event
LoopSendDropsWhenFull ==
    /\ sessPc = "turn"
    /\ IF Len(ws_chan) < Cap
       THEN SendQueues
       ELSE /\ held # 0
            /\ writer.pc # "closed"
            /\ held' = 0
            /\ UNCHANGED qvars
            /\ UNCHANGED <<sessPc, current_cancel, turns, streamPc,
                           subscribed, agent_stream, perm_rx,
                           pending_permission, perm_sent, perm_val, ivars>>
            /\ UNCHANGED <<kvars, wcall, wire, yielded, consumerPc, ws_chan,
                           writer, peer_got, lagged, dropped>>

\* ws_sender.send(WsMessage::Text(json)).await in send_message and
\* send_error: the loop waits here while the channel is full
LoopSend ==
    /\ sessPc = "turn"
    /\ Len(ws_chan) < Cap
    /\ SendQueues

\* the writer task has ended and dropped rx: send returns Err, which is
\* logged (send_message) or ignored (send_error); the loop goes on
LoopSendFailed ==
    /\ sessPc = "turn"
    /\ held # 0
    /\ writer.pc = "closed"
    /\ held' = 0
    /\ dropped' = IF held = ErrEvent THEN dropped ELSE dropped + 1
    /\ IF held = ErrEvent
       THEN sessPc' = "idle" /\ current_cancel' = "none"
       ELSE UNCHANGED <<sessPc, current_cancel>>
    /\ UNCHANGED qvars
    /\ UNCHANGED <<turns, streamPc, subscribed, agent_stream, perm_rx,
                   pending_permission, perm_sent, perm_val, ivars>>
    /\ UNCHANGED <<kvars, wcall, wire, yielded, consumerPc, ws_chan, writer,
                   peer_got, lagged>>

\* the writer task: rx.recv() yields the next event
WriterRecv ==
    /\ writer.pc = "recv"
    /\ Len(ws_chan) > 0
    /\ writer' = [pc |-> "sending", msg |-> Head(ws_chan)]
    /\ ws_chan' = Tail(ws_chan)
    /\ UNCHANGED <<qvars, sessVars>>
    /\ UNCHANGED <<kvars, wcall, wire, yielded, consumerPc, peer_got, held, lagged,
                   dropped>>

\* ws_sender.send(msg).await returns Ok
WriterSent ==
    /\ writer.pc = "sending"
    /\ peer_got' = Append(peer_got, writer.msg)
    /\ writer' = WriterIdle
    /\ UNCHANGED <<qvars, sessVars>>
    /\ UNCHANGED <<kvars, wcall, wire, yielded, consumerPc, ws_chan, held, lagged,
                   dropped>>

\* ws_sender.send(msg).await returns Err: the task logs it, leaves its loop
\* and closes the sink; rx and what it still holds are dropped
WriterFailed ==
    /\ writer.pc = "sending"
    /\ writer' = [pc |-> "closed", msg |-> 0]
    /\ ws_chan' = <<>>
    /\ dropped' = dropped
                  + Cardinality({i \in 1..Len(ws_chan) : ws_chan[i] # ErrEvent})
                  + (IF writer.msg # ErrEvent THEN 1 ELSE 0)
    /\ UNCHANGED <<qvars, sessVars>>
    /\ UNCHANGED <<kvars, wcall, wire, yielded, consumerPc, peer_got, held, lagged>>

NextOutput ==
    \/ Len(turns) < 1 /\ Outer_UserMessage
    \/ StreamSendInput
    \/ CallerAcquire
    \/ CallerWriteDone
    \/ StreamSubscribe
    \/ \E m \in BurstMessages :
          /\ subscribed
          /\ emitted < MaxBurst
          /\ CliEmit(m)
          /\ UNCHANGED svars
    \/ BusPublish
    \/ LoopTake
    \/ LoopLagged
    \/ LoopSend
    \/ LoopSendFailed
    \/ WriterRecv
    \/ WriterSent
    \/ WriterFailed

SpecOutput == InitSession /\ [][NextOutput]_vars

\* the events that are CLI messages, not error events
Messages(seq) == SelectSeq(seq, LAMBDA e : e # ErrEvent)

Ids(seq) == [i \in 1..Len(seq) |-> seq[i].id]

\* everything on its way, oldest first
InFlight ==
    Messages(peer_got)
    \o Messages(IF writer.msg = 0 THEN <<>> ELSE <<writer.msg>>)
    \o Messages(ws_chan)
    \o Messages(IF held = 0 THEN <<>> ELSE <<held>>)
    \o Ids(agent_stream)
    \o Ids(read_rx)

LagReported ==
    \/ lagged > 0
    \/ \E i \in 1..Len(turns) : turns[i].st = "error"

\* no message is in two places or out of order, and every message the CLI
\* wrote is on its way, with the peer, or counted as dropped
Conserved ==
    /\ Len(ws_chan) <= Cap
    /\ Len(agent_stream) <= Cap
    /\ \A i, j \in 1..Len(InFlight) : i < j => InFlight[i] < InFlight[j]
    /\ emitted = Len(InFlight) + dropped

\* the sink does not take the event the writer task is sending, the
\* writer's channel is full and the session loop waits to send
Stalled == writer.pc = "sending" /\ Len(ws_chan) = Cap /\ held > 0

C22_FailedSendStopsLoop ==
    [][writer.pc = "closed" /\ held = 0 => held' = 0]_vars


(***************************************************************************)
(* The permission sink of the session loop (specification SpecSession).    *)
(***************************************************************************)
\* the decisions that reached the closure waiting for request h
DecisionsOf(h) == {d \in Decisions : <<h, d>> \in perm_val}

PermissionResponseStep(d) ==
    Outer_PermissionResponse(d) \/ Inner_PermissionResponse(d)

\* C23: a permission_response of the peer completes the pending permission
\* sink at most once.  No request ever receives two decisions; a decision
\* is delivered only by the step that takes the stored sink, and that step
\* delivers exactly the peer's decision to the request whose sink it was; a
\* permission_response met with no sink stored changes no state, so nothing
\* is written to the CLI.
C23_SinkCompletedAtMostOnce ==
    /\ [](\A h \in HandlerIds : Cardinality(DecisionsOf(h)) <= 1)
    /\ [][perm_val' # perm_val =>
            /\ pending_permission # 0
            /\ pending_permission' = 0
            /\ \E d \in Decisions :
                 /\ PermissionResponseStep(d)
                 /\ perm_val' = perm_val \cup {<<pending_permission, d>>}]_vars
    /\ [][\A d \in Decisions :
            (pending_permission = 0 /\ PermissionResponseStep(d))
               => UNCHANGED vars]_vars

\* the peer's decision for a request was delivered, the sink is gone, and
\* the closure has not yet returned: a further response finds nothing
C23_Witness ==
    \E h \in HandlerIds :
       /\ RespRxAlive(h)
       /\ DecisionsOf(h) = {"allow_always"}
       /\ pending_permission = 0
       /\ sessPc = "turn"


(***************************************************************************)
(* Part VIII.  The SDK's objects used directly: the reply to a             *)
(* can_use_tool request, the ClaudeClient and the SubprocessCLITransport.  *)
(***************************************************************************)
\* everything outside client, transport and api is at rest
NothingElse ==
    /\ cliAlive = TRUE
    /\ emitted = 0
    /\ read_rx = <<>>
    /\ stdin = <<>>
    /\ write_half = NoTask
    /\ readerPc = "run"
    /\ pending_requests = {}
    /\ request_counter = 0
    /\ fulfilled = <<>>
    /\ sinkVal = "empty"
    /\ message_chan = <<>>
    /\ handlers = <<>>
    /\ can_use_tool = TRUE
    /\ callerPc = "idle"
    /\ callerLine = NoLine
    /\ callerRet = "none"
    /\ cmdSeq = 0
    /\ sessPc = "none"
    /\ current_cancel = "none"
    /\ turns = <<>>
    /\ streamPc = "none"
    /\ subscribed = FALSE
    /\ agent_stream = <<>>
    /\ perm_rx = <<>>
    /\ pending_permission = 0
    /\ perm_sent = {}
    /\ perm_val = {}
    /\ initPc = "none"
    /\ init_frame = "none"
    /\ init_data = NoInit
    /\ init_reply = "none"
    /\ wcall = NoCall
    /\ wire = <<>>
    /\ yielded = <<>>
    /\ consumerPc = "open"
    /\ NoOutput

baseVars == <<qvars, sessVars, wcall, wire, yielded, consumerPc, bvars>>

restVars == <<baseVars, pvars>>

(***************************************************************************)
(* The reply to a can_use_tool request (specification SpecReply).          *)
(***************************************************************************)
ToolNames == {"Bash", "Read", "Write"}
ToolInputs == {"{}", "{cmd:ls}", "{file_path:/x}"}

\* a key that request_data does not have
Missing == "missing"

\* the can_use_tool requests the CLI may send
RequestData == [tool_name : ToolNames \cup {Missing},
                input : ToolInputs \cup {Missing}]

\* server.rs: the peer's Decision becomes the closure's PermissionResponse
ToPermissionResponse(decision) ==
    CASE decision = "allow" -> "Allow"
      [] decision = "deny" -> "Deny"
      [] decision = "allow_always" -> "AllowAlways"

\* PermissionResultAllow::default(): allow, no updated input, no updates
PermissionResultAllow_default ==
    [behavior |-> "allow", updated_input |-> "none",
     updated_permissions |-> <<>>]

\* PermissionResultDeny::default(): no message, no interrupt
PermissionResultDeny_default ==
    [behavior |-> "deny", message |-> "", interrupt |-> FALSE]

\* PermissionHandlerAdapter::can_use, given what the handler returned
PermissionHandlerAdapter_can_use(tool_name, response) ==
    CASE response = "Allow" -> PermissionResultAllow_default
      [] response = "AllowAlways" ->
           [behavior |-> "allow", updated_input |-> "none",
            updated_permissions |->
               << [type |-> "addRules",
                   rules |-> << [tool_name |-> tool_name,
                                 rule_content |-> "none"] >>,
                   behavior |-> "allow",
                   destination |-> "session"] >>]
      [] response = "Deny" -> PermissionResultDeny_default

\* a reply that passes on updated_input as it is
handle_permission_requestNoFallback(input, result) ==
    IF result.behavior = "allow"
    THEN [behavior |-> "allow",
          updatedInput |-> result.updated_input,
          updatedPermissions |-> result.updated_permissions]
    ELSE [behavior |-> "deny", message |-> result.message,
          interrupt |-> result.interrupt]

\* Query::handle_permission_request: the json! built from the result
handle_permission_request(input, result) ==
    IF result.behavior = "allow"
    THEN [behavior |-> "allow",
          updatedInput |-> IF result.updated_input = "none"
                           THEN input ELSE result.updated_input,
          updatedPermissions |-> result.updated_permissions]
    ELSE [behavior |-> "deny", message |-> result.message,
          interrupt |-> result.interrupt]

\* a can_use_tool request has reached handle_permission_request; the peer
\* will answer the prompt with `decision`
InitReply ==
    /\ NothingElse
    /\ NoFurther
    /\ client = "none"
    /\ transport = "none"
    /\ api \in [op : {"can_use_tool"}, request : RequestData,
                callback : BOOLEAN, decision : Decisions, pc : {"called"},
                result : {"none"}, reply : {"none"}]

\* tool_name, input or the callback is missing: Err(ControlProtocol)
ReplyRejected ==
    /\ api.pc = "called"
    /\ ~(/\ api.request.tool_name # Missing
         /\ api.request.input # Missing
         /\ api.callback)
    /\ api' = [api EXCEPT !.pc = "failed"]
    /\ UNCHANGED <<restVars, client, transport>>

\* can_use_tool.can_use(tool_name, input, &context).await
ReplyDecided ==
    /\ api.pc = "called"
    /\ api.request.tool_name # Missing
    /\ api.request.input # Missing
    /\ api.callback
    /\ api' = [api EXCEPT
                 !.pc = "decided",
                 !.result = PermissionHandlerAdapter_can_use(
                                api.request.tool_name,
                                ToPermissionResponse(api.decision))]
    /\ UNCHANGED <<restVars, client, transport>>

\* `let response = match result { .. }; Ok(response)`
ReplyBuilt ==
    /\ api.pc = "decided"
    /\ api' = [api EXCEPT
                 !.pc = "replied",
                 !.reply = handle_permission_request(api.request.input,
                                                     api.result)]
    /\ UNCHANGED <<restVars, client, transport>>

NextReply == ReplyRejected \/ ReplyDecided \/ ReplyBuilt

SpecReply == InitReply /\ [][NextReply]_vars

\* the reply allows the tool with its original input
AllowsOriginal ==
    /\ api.reply.behavior = "allow"
    /\ api.reply.updatedInput = api.request.input

MaxCalls == 4
MaxConnects == 2

\* Option<ClientPromptInput> of connect: None, String(_), Stream(_)
Prompts == {"none", "string", "stream"}

\* what the CLI may answer to the initialize request
InitResponses == {"commands_a", "commands_b"}

WriteOps == {"query_string", "query_stream"}
ControlOps == {"interrupt", "set_permission_mode", "set_model",
               "rewind_files"}

\* ClaudeClient::new(options): cb is options.can_use_tool.is_some(), ppt is
\* options.permission_prompt_tool_name; cmd is the --permission-prompt-tool
\* of the last command built, spawned the number of children started
ClaudeClient_new(cb, ppt) ==
    [cb |-> cb, ppt |-> ppt, query |-> "none", message_rx |-> FALSE,
     stderr_rx |-> 0, process_handle |-> 0, conns |-> 0, spawned |-> 0,
     cmd |-> "unbuilt"]

\* SubprocessCLITransport::new: no process yet; connects counts the calls
\* of connect, halves the times split has handed out its four halves
SubprocessCLITransport_new ==
    [state |-> "owned", process |-> FALSE, ready |-> FALSE, connects |-> 0,
     halves |-> 0]

\* no call yet.  live: a connect has succeeded and no disconnect followed;
\* init_response: what the CLI answered to that connect's initialize;
\* the logs: what stderr_receiver and process_handle have returned
NoHistory ==
    [n |-> 0, op |-> "none", arg |-> "none", ret |-> "none",
     live |-> FALSE, init_response |-> "none",
     stderr_log |-> <<>>, handle_log |-> <<>>]

InitClient ==
    /\ NothingElse
    /\ NoFurther
    /\ client \in {ClaudeClient_new(cb, ppt) :
                      cb \in BOOLEAN, ppt \in {"none", "mcp"}}
    /\ transport = SubprocessCLITransport_new
    /\ api = NoHistory

\* the call returns
Returns(op, arg, ret) ==
    [api EXCEPT !.n = @ + 1, !.op = op, !.arg = arg, !.ret = ret]

\* a validation that only looks at the prompt
connect_invalidStringOnly(c, prompt) ==
    c.cb /\ prompt = "string"

\* connect: the two InvalidConfig returns
connect_invalid(c, prompt) ==
    c.cb /\ (prompt = "string" \/ c.ppt # "none")

\* connect past its validation: stdio is set, the callbacks are taken
connect_configured(c) ==
    [c EXCEPT !.ppt = IF c.cb THEN "stdio" ELSE @, !.cb = FALSE]

\* ClaudeClient::connect.  outcome is what the environment makes of it: no
\* CLI found, the spawn fails, the initialize request fails, or all is well
\* and the CLI answers initialize with r
ClientConnect(prompt, outcome, r) ==
    /\ api.n < MaxCalls
    /\ client.conns < MaxConnects
    /\ IF connect_invalid(client, prompt)
       THEN /\ api' = Returns("connect", prompt, "Err(InvalidConfig)")
            /\ UNCHANGED <<client, stdin>>
       ELSE LET c == connect_configured(client)
                initialize == [line |-> "initialize", part |-> "tail"]
            IN
            CASE outcome = "no_cli" ->
                   /\ client' = c
                   /\ api' = Returns("connect", prompt, "Err(CLINotFound)")
                   /\ UNCHANGED stdin
              [] outcome = "spawn_failed" ->
                   /\ client' = [c EXCEPT !.cmd = c.ppt]
                   /\ api' = Returns("connect", prompt, "Err(Process)")
                   /\ UNCHANGED stdin
              [] outcome = "init_failed" ->
                   /\ client' = [c EXCEPT !.cmd = c.ppt, !.spawned = @ + 1]
                   /\ api' = Returns("connect", prompt, "Err(Timeout)")
                   /\ stdin' = Append(stdin, initialize)
              [] outcome = "ok" ->
                   /\ stdin' = Append(stdin, initialize)
                   /\ client' = [c EXCEPT !.cmd = c.ppt, !.spawned = @ + 1,
                                          !.query = "some",
                                          !.message_rx = TRUE,
                                          !.conns = @ + 1,
                                          !.stderr_rx = c.conns + 1,
                                          !.process_handle = c.conns + 1]
                   /\ api' = [Returns("connect", prompt, "Ok")
                                 EXCEPT !.live = TRUE, !.init_response = r]
    /\ UNCHANGED <<cliVars, read_rx, lockVars, readerPc, tableVars,
                   message_chan, handlers, can_use_tool, callerVars>>
    /\ UNCHANGED <<sessVars, wcall, wire, yielded, consumerPc, bvars, pvars>>
    /\ UNCHANGED transport

\* `self.query.as_mut().ok_or_else(|| Error::CLIConnection(..))?`
NotConnected(op) ==
    /\ client.query = "none"
    /\ api' = Returns(op, "none", "Err(CLIConnection)")
    /\ UNCHANGED <<restVars, client, transport>>

\* query_string, query_stream: one line written with Query::write
ClientWrite(op, ok) ==
    /\ api.n < MaxCalls
    /\ op \in WriteOps
    /\ \/ NotConnected(op)
       \/ /\ client.query = "some"
          /\ IF ok
             THEN /\ stdin' = Append(stdin, [line |-> "user", part |-> "tail"])
                  /\ api' = Returns(op, "none", "Ok")
             ELSE /\ UNCHANGED stdin
                  /\ api' = Returns(op, "none", "Err(Io)")
          /\ UNCHANGED <<cliVars, read_rx, lockVars, readerPc, tableVars,
                         message_chan, handlers, can_use_tool, callerVars>>
          /\ UNCHANGED <<sessVars, wcall, wire, yielded, consumerPc, bvars, pvars>>
          /\ UNCHANGED <<client, transport>>

\* interrupt, set_permission_mode, set_model, rewind_files: a control
\* request is written and its response awaited for 60 s
ClientControl(op, ok) ==
    /\ api.n < MaxCalls
    /\ op \in ControlOps
    /\ \/ NotConnected(op)
       \/ /\ client.query = "some"
          /\ stdin' = Append(stdin, [line |-> op, part |-> "tail"])
          /\ api' = Returns(op, "none", IF ok THEN "Ok" ELSE "Err(Timeout)")
          /\ UNCHANGED <<cliVars, read_rx, lockVars, readerPc, tableVars,
                         message_chan, handlers, can_use_tool, callerVars>>
          /\ UNCHANGED <<sessVars, wcall, wire, yielded, consumerPc, bvars, pvars>>
          /\ UNCHANGED <<client, transport>>

\* Query::get_initialization_result
get_initialization_result(c) == "None"

\* ClaudeClient::get_server_info
ClientGetServerInfo ==
    /\ api.n < MaxCalls
    /\ \/ NotConnected("get_server_info")
       \/ /\ client.query = "some"
          /\ api' = Returns("get_server_info", "none",
                            get_initialization_result(client))
          /\ UNCHANGED <<restVars, client, transport>>

\* ClaudeClient::receive_messages: Query::receive_messages takes message_rx
ClientReceiveMessages ==
    /\ api.n < MaxCalls
    /\ \/ NotConnected("receive_messages")
       \/ /\ client.query = "some"
          /\ IF client.message_rx
             THEN /\ client' = [client EXCEPT !.message_rx = FALSE]
                  /\ api' = Returns("receive_messages", "none", "Ok(stream)")
             ELSE /\ UNCHANGED client
                  /\ api' = Returns("receive_messages", "none", "Err(Unknown)")
          /\ UNCHANGED <<restVars, transport>>

\* a disconnect that leaves the Query in place
disconnectKeepsQuery(c) == c

\* `self.query.take()`; Query::close returns Ok
disconnect(c) == [c EXCEPT !.query = "none", !.message_rx = FALSE]

\* ClaudeClient::disconnect
ClientDisconnect ==
    /\ api.n < MaxCalls
    /\ client' = disconnect(client)
    /\ api' = [Returns("disconnect", "none", "Ok") EXCEPT !.live = FALSE]
    /\ UNCHANGED <<restVars, transport>>

\* a stderr_receiver that hands out the receiver and keeps it
stderr_receiverKeeps(c) ==
    [ret |-> c.stderr_rx, client |-> c]

\* `self.stderr_rx.take()`
stderr_receiver(c) ==
    [ret |-> c.stderr_rx, client |-> [c EXCEPT !.stderr_rx = 0]]

\* `self.process_handle.take()`
process_handle(c) ==
    [ret |-> c.process_handle, client |-> [c EXCEPT !.process_handle = 0]]

ClientStderrReceiver ==
    /\ api.n < MaxCalls
    /\ client' = stderr_receiver(client).client
    /\ api' = [Returns("stderr_receiver", "none", stderr_receiver(client).ret)
                  EXCEPT !.stderr_log =
                             Append(@, stderr_receiver(client).ret)]
    /\ UNCHANGED <<restVars, transport>>

ClientProcessHandle ==
    /\ api.n < MaxCalls
    /\ client' = process_handle(client).client
    /\ api' = [Returns("process_handle", "none", process_handle(client).ret)
                  EXCEPT !.handle_log =
                             Append(@, process_handle(client).ret)]
    /\ UNCHANGED <<restVars, transport>>

\* SubprocessCLITransport::connect: nothing to do when the process exists,
\* else the child is spawned or the spawn fails
TransportConnect(ok) ==
    /\ api.n < MaxCalls
    /\ transport.state = "owned"
    /\ IF transport.process \/ ok
       THEN /\ transport' = [transport EXCEPT !.process = TRUE,
                                              !.ready = TRUE,
                                              !.connects = @ + 1]
            /\ api' = Returns("transport_connect", "none", "Ok")
       ELSE /\ transport' = [transport EXCEPT !.connects = @ + 1]
            /\ api' = Returns("transport_connect", "none", "Err(Process)")
    /\ UNCHANGED <<restVars, client>>

\* a split that does not look for the process
splitUnchecked(t) ==
    [ret |-> "Ok(read,write,stderr,process)",
     transport |-> [t EXCEPT !.state = "moved", !.process = FALSE,
                             !.halves = @ + 1]]

\* SubprocessCLITransport::split(mut self): `self.process.take()`, the
\* three pipes of the child, then the four halves; self is consumed
split(t) ==
    IF t.process
    THEN [ret |-> "Ok(read,write,stderr,process)",
          transport |-> [t EXCEPT !.state = "moved", !.process = FALSE,
                                  !.halves = @ + 1]]
    ELSE [ret |-> "Err(Process)",
          transport |-> [t EXCEPT !.state = "moved"]]

TransportSplit ==
    /\ api.n < MaxCalls
    /\ transport.state = "owned"
    /\ transport' = split(transport).transport
    /\ api' = Returns("split", "none", split(transport).ret)
    /\ UNCHANGED <<restVars, client>>

NextClient ==
    \/ \E prompt \in Prompts, r \in InitResponses,
          outcome \in {"no_cli", "spawn_failed", "init_failed", "ok"} :
          ClientConnect(prompt, outcome, r)
    \/ \E op \in WriteOps, ok \in BOOLEAN : ClientWrite(op, ok)
    \/ \E op \in ControlOps, ok \in BOOLEAN : ClientControl(op, ok)
    \/ ClientGetServerInfo
    \/ ClientReceiveMessages
    \/ ClientDisconnect
    \/ ClientStderrReceiver
    \/ ClientProcessHandle
    \/ \E ok \in BOOLEAN : TransportConnect(ok)
    \/ TransportSplit

SpecClient == InitClient /\ [][NextClient]_vars

\* the step is a call of op
Calls(op) == api'.n = api.n + 1 /\ api'.op = op

\* C25: connect with a can_use_tool callback configured fails with
\* InvalidConfig, before any child process is spawned and before a command
\* is built, when the prompt is a string or when permission_prompt_tool_name
\* is also set; in every other case with the callback present
\* permission_prompt_tool_name is stdio afterwards, and so is the
\* --permission-prompt-tool of the command the call built, if it built one.
C25_CallbackValidatedBeforeSpawn ==
    [][(Calls("connect") /\ client.cb) =>
          IF api'.arg = "string" \/ client.ppt # "none"
          THEN /\ api'.ret = "Err(InvalidConfig)"
               /\ client'.spawned = client.spawned
               /\ client'.cmd = client.cmd
          ELSE /\ api'.ret # "Err(InvalidConfig)"
               /\ client'.ppt = "stdio"
               /\ client'.cmd \in {client.cmd, "stdio"}
               /\ client'.spawned > client.spawned => client'.cmd = "stdio"]_vars

\* a client with the callback and a permission prompt tool was refused, no
\* child was started
C25_Witness ==
    /\ api.op = "connect"
    /\ api.arg = "stream"
    /\ api.ret = "Err(InvalidConfig)"
    /\ client.cb
    /\ client.ppt = "mcp"
    /\ client.spawned = 0
    /\ client.cmd = "unbuilt"

\* C26 (as claimed): after connect has succeeded, get_server_info returns
\* the response to the initialize control request.
C26_ServerInfoIsInitResponse ==
    (api.op = "get_server_info" /\ api.live) => api.ret = api.init_response

GuardedOps == WriteOps \cup ControlOps \cup {"get_server_info",
                                             "receive_messages"}

\* C27: before connect has succeeded and after disconnect, each of
\* query_string, query_stream, interrupt, set_permission_mode, set_model,
\* rewind_files, get_server_info and receive_messages returns a
\* CLIConnection error and writes nothing to the CLI.
C27_NotConnectedCallsFail ==
    [][\A op \in GuardedOps :
          (Calls(op) /\ ~api.live) =>
             /\ api'.ret = "Err(CLIConnection)"
             /\ stdin' = stdin]_vars

\* a connection was made and given up, and set_model was then refused with
\* nothing but the first connection's line on stdin
C27_Witness ==
    /\ api.op = "set_model"
    /\ api.ret = "Err(CLIConnection)"
    /\ client.conns = 1
    /\ ~api.live
    /\ Len(stdin) = 1

Positive(log) == {i \in 1..Len(log) : log[i] > 0}

\* every value a log holds is the one of a connection made, and no
\* connection's value is in it twice
TakenOncePerConnection(log) ==
    /\ \A i \in Positive(log) : log[i] <= client.conns
    /\ \A i, j \in Positive(log) : i < j => log[i] < log[j]

\* C29: stderr_receiver and process_handle each return None before a
\* successful connect, and each returns a value at most once per
\* connection: after the first call that returned a value, every later
\* call returns None.
C29_TakenAtMostOnce ==
    /\ TakenOncePerConnection(api.stderr_log)
    /\ TakenOncePerConnection(api.handle_log)

\* None before the connect, the receiver after it, None from then on; the
\* process handle is still there to be taken
C29_Witness ==
    /\ api.stderr_log = <<0, 1, 0>>
    /\ client.process_handle = 1

\* C30: split on a transport whose connect was never called fails with a
\* Process error and yields no halves; split after a successful connect
\* yields the read, write, stderr and process halves; the transport is
\* consumed, so the halves are yielded at most once.
C30_SplitNeedsConnect ==
    /\ transport.halves <= 1
    /\ api.op = "split" =>
         /\ transport.state = "moved"
         /\ transport.connects = 0 =>
              api.ret = "Err(Process)" /\ transport.halves = 0
         /\ transport.ready =>
              api.ret = "Ok(read,write,stderr,process)" /\ transport.halves = 1
         /\ ~transport.ready =>
              api.ret = "Err(Process)" /\ transport.halves = 0

\* the transport was connected at the second attempt and then split
C30_Witness ==
    /\ api.op = "split"
    /\ api.ret = "Ok(read,write,stderr,process)"
    /\ transport.connects = 2
    /\ transport.halves = 1


(***************************************************************************)
(* The stream of ClaudeClient::receive_response (specification             *)
(* SpecResponse): the CLI's lines go through read_messages and the Query   *)
(* reader to message_rx, which the stream reads.  The Query keeps a        *)
(* message_tx of its own, so the channel does not close while the stream   *)
(* borrows the client.                                                     *)
(***************************************************************************)
\* one poll of the stream that takes a message: receive_messages parses it
\* and yields Ok(message), or yields Err(e) and ends; receive_response
\* yields the item and ends after an Err or a Result
ResponseRecv ==
    /\ consumerPc = "open"
    /\ Len(message_chan) > 0
    /\ message_chan' = Tail(message_chan)
    /\ LET data == Head(message_chan)
           ok == parse_message(data)
       IN /\ yielded' = Append(yielded, [ok |-> ok, type |-> data.type,
                                         id |-> data.id])
          /\ consumerPc' = IF ok /\ data.type # "result"
                           THEN "open" ELSE "ended"
    /\ UNCHANGED <<cliVars, read_rx, stdin, lockVars, readerPc, tableVars,
                   handlers, can_use_tool, callerVars>>
    /\ UNCHANGED <<sessVars, wcall, wire, bvars, kvars>>

NextResponse ==
    \/ \E line \in StdoutLines : emitted < MaxLines /\ ReadMessagesLine(line)
    \/ CliExit
    \/ ReaderRegular
    \/ ReaderEof
    \/ ResponseRecv

SpecResponse == InitQuery /\ [][NextResponse]_vars

\* C28 (as claimed): the stream returned by receive_response yields the
\* CLI's messages, in order, up to and including the first Result message
\* and then ends: it yields messages only, in the order the CLI wrote them,
\* nothing after a Result, and it has not ended before it yielded a Result.
C28_YieldsThroughFirstResult ==
    /\ \A i \in 1..Len(yielded) : yielded[i].ok
    /\ \A i, j \in 1..Len(yielded) : i < j => yielded[i].id < yielded[j].id
    /\ \A i \in 1..Len(yielded) :
          yielded[i].type = "result" => i = Len(yielded)
    /\ consumerPc = "ended" =>
          /\ yielded # <<>>
          /\ yielded[Len(yielded)].type = "result"


(***************************************************************************)
(* Part IX.  The agent pool (specification SpecPool).  AgentPool::new has  *)
(* filled the pool with core_size agents; its callers acquire agents,      *)
(* release the ones they hold, or drop them.                               *)
(***************************************************************************)
MaxCoreSize == 2
MaxPoolCalls == 5

\* AgentPool::new through ensure_core_pool: agents 1..core_size are idle.
\* out: the agents acquired and not released; owned: those of them a caller
\* still holds
AgentPool_new(core_size) ==
    [core_size |-> core_size,
     idle_agents |-> [i \in 1..core_size |-> i],
     total_count |-> core_size,
     out |-> {}, owned |-> {}]

InitPool ==
    /\ NothingElse
    /\ client = "none"
    /\ transport = "none"
    /\ errs = "none"
    /\ pool \in {AgentPool_new(n) : n \in 0..MaxCoreSize}
    /\ api = [n |-> 0, op |-> "none", ret |-> "none"]

\* the call returns
PoolReturns(op, ret) == [n |-> api.n + 1, op |-> op, ret |-> ret]

\* an acquire that hands out the front agent and leaves it in the queue
acquireLeavesIdle(p) ==
    IF Len(p.idle_agents) > 0
    THEN [ok |-> TRUE, agent |-> Head(p.idle_agents), msg |-> "",
          pool |-> [p EXCEPT !.out = @ \cup {Head(p.idle_agents)},
                             !.owned = @ \cup {Head(p.idle_agents)}]]
    ELSE [ok |-> FALSE, agent |-> 0, msg |-> "Pool exhausted", pool |-> p]

\* AgentPool::acquire: `idle_agents.pop_front()`, else Error::Unknown
acquire(p) ==
    IF Len(p.idle_agents) > 0
    THEN [ok |-> TRUE, agent |-> Head(p.idle_agents), msg |-> "",
          pool |-> [p EXCEPT !.idle_agents = Tail(@),
                             !.out = @ \cup {Head(p.idle_agents)},
                             !.owned = @ \cup {Head(p.idle_agents)}]]
    ELSE [ok |-> FALSE, agent |-> 0, msg |-> "Pool exhausted", pool |-> p]

\* a release that does not put the agent back
releaseDropsAgent(p, agent) ==
    [p EXCEPT !.out = @ \ {agent}, !.owned = @ \ {agent}]

\* AgentPool::release: `idle_agents.push_back(agent)`
release(p, agent) ==
    [p EXCEPT !.idle_agents = Append(@, agent),
              !.out = @ \ {agent}, !.owned = @ \ {agent}]

\* AgentPool::stats
stats(p) ==
    [total_count |-> p.total_count,
     idle_count |-> Len(p.idle_agents),
     active_count |-> p.total_count - Len(p.idle_agents)]

PoolAcquire ==
    /\ api.n < MaxPoolCalls
    /\ pool' = acquire(pool).pool
    /\ api' = PoolReturns("acquire", [ok |-> acquire(pool).ok,
                                      agent |-> acquire(pool).agent,
                                      msg |-> acquire(pool).msg])
    /\ UNCHANGED <<baseVars, client, transport, errs>>

\* the caller gives back an agent it holds
PoolRelease(agent) ==
    /\ api.n < MaxPoolCalls
    /\ agent \in pool.owned
    /\ pool' = release(pool, agent)
    /\ api' = PoolReturns("release", [ok |-> TRUE, agent |-> agent,
                                      msg |-> ""])
    /\ UNCHANGED <<baseVars, client, transport, errs>>

\* the caller drops an agent it holds without releasing it
PoolAgentDropped(agent) ==
    /\ agent \in pool.owned
    /\ pool' = [pool EXCEPT !.owned = @ \ {agent}]
    /\ UNCHANGED <<baseVars, client, transport, errs, api>>

PoolStats ==
    /\ api.n < MaxPoolCalls
    /\ api' = PoolReturns("stats", stats(pool))
    /\ UNCHANGED <<baseVars, client, transport, pvars>>

NextPool ==
    \/ PoolAcquire
    \/ \E agent \in 1..MaxCoreSize : PoolRelease(agent)
    \/ \E agent \in 1..MaxCoreSize : PoolAgentDropped(agent)
    \/ PoolStats

SpecPool == InitPool /\ [][NextPool]_vars

\* C31: acquire on a pool with no idle agent fails with the error 'Pool
\* exhausted' and leaves the pool unchanged; once an acquired agent has
\* been released, the next acquire succeeds.
C31_ExhaustedThenReleased ==
    [][Calls("acquire") =>
          /\ pool.idle_agents = <<>> =>
               /\ ~api'.ret.ok
               /\ api'.ret.msg = "Pool exhausted"
               /\ pool' = pool
          /\ api.op = "release" =>
               /\ api'.ret.ok
               /\ api'.ret.agent \in pool'.owned]_vars

\* the only agent was acquired, a second acquire failed, the agent was
\* released and acquired again
C31_Witness ==
    /\ pool.core_size = 1
    /\ api.n = 4
    /\ api.op = "acquire"
    /\ api.ret.ok
    /\ pool.idle_agents = <<>>
    /\ pool.owned = {1}

MaxBlocks == 3

\* ContentBlock::Text, ToolUse, Thinking, and any other variant
BlockKinds == {"text", "tool_use", "thinking", "other"}

Contents == UNION {[1..n -> BlockKinds] : n \in 0..MaxBlocks}

\* the event pushed for the block at position i, if any
EventsOfBlock(kind, i) ==
    CASE kind = "text" ->
           << [type |-> "AssistantMessage", block |-> i, is_final |-> FALSE] >>
      [] kind = "tool_use" ->
           << [type |-> "ToolStarted", block |-> i, is_final |-> FALSE] >>
      [] kind = "thinking" ->
           << [type |-> "AssistantReasoning", block |-> i, is_final |-> FALSE] >>
      [] OTHER -> <<>>

RECURSIVE PushEvents(_, _)
\* `for block in &assistant.content { .. events.push(..) .. }`, blocks 1..n
PushEvents(content, n) ==
    IF n = 0 THEN <<>>
    ELSE PushEvents(content, n - 1) \o EventsOfBlock(content[n], n)

\* `if let Some(last_event) = events.last_mut()`: is_final is set when the
\* last event is an AssistantMessage
MarkLast(events) ==
    IF /\ Len(events) > 0
       /\ events[Len(events)].type = "AssistantMessage"
    THEN [events EXCEPT ![Len(events)].is_final = TRUE]
    ELSE events

\* sdk_to_events, the arm Message::Assistant
sdk_to_events(content) == MarkLast(PushEvents(content, Len(content)))

InitEvents ==
    /\ NothingElse
    /\ NoFurther
    /\ client = "none"
    /\ transport = "none"
    /\ api \in [op : {"sdk_to_events"}, content : Contents,
                done : {FALSE}, events : {<<>>}]

SdkToEvents ==
    /\ ~api.done
    /\ api' = [api EXCEPT !.done = TRUE,
                          !.events = sdk_to_events(api.content)]
    /\ UNCHANGED <<restVars, client, transport>>

NextEvents == SdkToEvents

SpecEvents == InitEvents /\ [][NextEvents]_vars

TextBlocks(content) == {i \in 1..Len(content) : content[i] = "text"}

Max(S) == CHOOSE x \in S : \A y \in S : y <= x

\* C33 (as claimed): when the assistant message holds at least one text
\* block, exactly one of the AssistantMessage events has is_final = TRUE, the
\* one of the last text block; every other one has is_final = FALSE.
C33_LastTextIsFinal ==
    (api.done /\ TextBlocks(api.content) # {}) =>
       \A k \in 1..Len(api.events) :
          api.events[k].type = "AssistantMessage" =>
             (api.events[k].is_final
                 <=> api.events[k].block = Max(TextBlocks(api.content)))


(***************************************************************************)
(* The cancellation token of the session loop (specification SpecSession). *)
(***************************************************************************)
\* C34: the stored cancellation token is present only while a turn is in
\* flight.  Each turn starts with a fresh token, not cancelled; every step
\* that ends a turn leaves no token stored; a turn's token is cancelled only
\* by an interrupt or cancel received during that turn, and with no turn in
\* flight no step cancels any turn's token.
C34_TokenOnlyDuringTurn ==
    /\ [](current_cancel = "some" => sessPc = "turn")
    /\ [](\A t \in 1..Len(turns) : turns[t].cancelled => turns[t].intr)
    /\ [][Len(turns') = Len(turns) + 1 =>
            /\ current_cancel' = "some"
            /\ ~turns'[Len(turns')].cancelled]_vars
    /\ [][(sessPc = "turn" /\ sessPc' # "turn") =>
            current_cancel' = "none"]_vars
    /\ [][sessPc # "turn" =>
            \A t \in 1..Len(turns) :
               turns'[t].cancelled = turns[t].cancelled]_vars

\* the first turn was interrupted and its token cancelled; the second turn
\* runs with a token of its own that is not cancelled
C34_Witness ==
    /\ Len(turns) = 2
    /\ turns[1].intr
    /\ turns[1].cancelled
    /\ turns[2].st = "active"
    /\ ~turns[2].cancelled
    /\ current_cancel = "some"
    /\ sessPc = "turn"


(***************************************************************************)
(* Which Result ends a turn (specification SpecSession).                   *)
(***************************************************************************)
\* the stream of the turn in flight takes a Result and ends the turn
StreamTakesResult ==
    /\ sessPc = "turn"
    /\ streamPc = "loop"
    /\ Len(agent_stream) > 0
    /\ Head(agent_stream).type = "result"
    /\ sessPc' = "idle"

\* the reader publishes a message of the turn in flight before the turn's
\* stream has subscribed, so that nobody receives it
ReaderDropsTurnMessage ==
    /\ sessPc = "turn"
    /\ streamPc \in {"start", "sending"}
    /\ Len(read_rx) > 0
    /\ Head(read_rx).type \in {"assistant", "result"}
    /\ Head(read_rx).id = CurTurn
    /\ read_rx' = Tail(read_rx)
    /\ agent_stream' = agent_stream

\* C35: the Result that ends a turn's stream is the Result the CLI produced
\* for that turn's user message, never one it emitted for an earlier turn,
\* and no message of a turn is lost between the sending of the turn's user
\* message and the turn's subscription to the message stream.
C35_ResultEndsOwnTurn ==
    /\ [][(StreamTakesResult /\ CurTurn > 1
                /\ turns[CurTurn - 1].st = "interrupted") =>
            Head(agent_stream).id = CurTurn]_vars
    /\ [][~ReaderDropsTurnMessage]_vars


(***************************************************************************)
(* Part XI.  The engine with a backlog on its message channel              *)
(* (specification SpecBacklog): the CLI has emitted regular messages that  *)
(* the owner of the client has not read.                                   *)
(***************************************************************************)
\* the message channel holds n regular messages
Backlog(n) ==
    [i \in 1..n |-> [type |-> "assistant", id |-> 0, sub |-> "-", wf |-> TRUE]]

\* Query::new and Query::start have run; the channel is full or one short
InitBacklog ==
    /\ cliAlive = TRUE
    /\ emitted = 0
    /\ read_rx = <<>>
    /\ stdin = <<>>
    /\ write_half = NoTask
    /\ readerPc = "run"
    /\ pending_requests = {}
    /\ request_counter = 0
    /\ fulfilled = <<>>
    /\ sinkVal = "empty"
    /\ message_chan \in {Backlog(MessageChanCap - 1), Backlog(MessageChanCap)}
    /\ handlers = <<>>
    /\ can_use_tool \in BOOLEAN
    /\ callerPc = "idle"
    /\ callerLine = NoLine
    /\ callerRet = "none"
    /\ cmdSeq = 0
    /\ NoSession

\* the steps of the engine while nobody reads the message stream
NextBacklog ==
    \/ \E m \in CliMessages :
          emitted < MaxInbound /\ CliEmit(m) /\ UNCHANGED svars
    \/ CliExit
    \/ ReaderControlResponse
    \/ ReaderControlRequest
    \/ ReaderRegular
    \/ ReaderEof
    \/ \E sub \in OutSubtypes :
          /\ cmdSeq < MaxCommands
          /\ request_counter < MaxRequests
          /\ SendControlRequestBegin(sub)
          /\ UNCHANGED svars
    \/ CallerAcquire
    \/ CallerWriteDone
    \/ CallerResolve
    \/ CallerTimeout
    \/ \E h \in HandlerIds, r \in CallbackResults :
          HandlerCallbackReturned(h, r) /\ UNCHANGED svars
    \/ \E h \in HandlerIds : HandlerAcquire(h)
    \/ \E h \in HandlerIds : HandlerWriteDone(h)

\* the reader task is a spawned task, which the runtime runs whenever it
\* can make a step
SpecBacklog ==
    /\ InitBacklog
    /\ [][NextBacklog]_vars
    /\ WF_vars(ReaderControlResponse)
    /\ WF_vars(ReaderControlRequest)
    /\ WF_vars(ReaderRegular)

\* a control_response is in the queue between the stdout reader and the
\* reader task
ResponseQueued ==
    \E i \in 1..Len(read_rx) : read_rx[i].type = "control_response"

\* C36: a control_response the CLI has emitted is eventually reached by the
\* reader task, whether or not the message stream is being read: a full
\* message channel does not keep the reader from it.
C36_ResponseReached == ResponseQueued ~> ~ResponseQueued


(***************************************************************************)
(* The message stream over the life of a connection (specification         *)
(* SpecClient).                                                            *)
(***************************************************************************)
\* C37: a connected client stays usable after a stream returned by
\* receive_messages or receive_response was consumed or dropped: every call
\* of receive_messages (which receive_response makes first) on a connected
\* client returns a stream.
C37_StreamAvailableAgain ==
    [][(Calls("receive_messages") /\ client.query = "some") =>
         api'.ret = "Ok(stream)"]_vars


(***************************************************************************)
(* The child process on the returns of handle_socket before the loop       *)
(* (specification SpecInit).                                               *)
(***************************************************************************)
\* the session exists and handle_socket holds its process handle
HandleTaken ==
    initPc \in {"sys_init", "sys_sending", "sys_interrupting", "sys_wait",
                "reply"}

\* handle_socket has returned without entering the loop
Returned == initPc \in {"ended", "returned"}

\* C38: once handle_socket has created the session and taken its process
\* handle, every return of handle_socket has killed the child process,
\* the returns after a failed send of the init reply included.
C38_EveryReturnKills ==
    [][(HandleTaken /\ Returned') => ~cliAlive']_vars


(***************************************************************************)
(* Part XII.  The child's stderr (specification SpecStderr): the pipe, the *)
(* task of StderrHalf::read_lines, its channel, and the receiver that      *)
(* ClaudeClient::connect stores in self.stderr_rx.                         *)
(***************************************************************************)
\* mpsc::channel(100) of read_lines
StderrChanCap == 100

\* the lines the pipe between the child and the reader task holds
PipeCap == 2

\* the lines the child writes to stdout
MaxStdout == 2

\* StderrHalf::read_lines has spawned its task; the receiver is in the
\* client.  child: "run", or "err" while it writes a diagnostic line, or
\* "exited"; pipe and chan: the lines in the pipe and in the channel;
\* line: the task holds a line it has read and not yet sent; rx: where the
\* receiver is; out: the lines the child has written to stdout
read_lines ==
    [child |-> "run", pipe |-> 0, reader |-> "run", line |-> FALSE,
     chan |-> 0, rx |-> "client", out |-> 0]

InitStderr ==
    /\ NothingElse
    /\ client = "none"
    /\ transport = "none"
    /\ api = "none"
    /\ pool = "none"
    /\ errs = read_lines

\* the steps below leave everything but errs alone
OnlyErrs == UNCHANGED <<baseVars, client, transport, api, pool>>

\* the reader task has ended and dropped the ChildStderr: the read end of
\* the pipe is closed, a write to it fails at once
PipeClosed == errs.reader = "done"

\* the child writes a line to stdout
ChildStdout ==
    /\ errs.child = "run"
    /\ errs.out < MaxStdout
    /\ errs' = [errs EXCEPT !.out = @ + 1]
    /\ OnlyErrs

\* the child starts to write a diagnostic line to stderr
ChildDiagnostic ==
    /\ errs.child = "run"
    /\ errs' = [errs EXCEPT !.child = "err"]
    /\ OnlyErrs

\* the write returns: the pipe had room for the line, or is closed
ChildDiagnosticWritten ==
    /\ errs.child = "err"
    /\ PipeClosed \/ errs.pipe < PipeCap
    /\ errs' = [errs EXCEPT !.child = "run",
                            !.pipe = IF PipeClosed THEN @ ELSE @ + 1]
    /\ OnlyErrs

\* the child exits
ChildExit ==
    /\ errs.child = "run"
    /\ errs' = [errs EXCEPT !.child = "exited"]
    /\ OnlyErrs

\* lines.next_line().await yields a line
StderrNextLine ==
    /\ errs.reader = "run"
    /\ ~errs.line
    /\ errs.pipe > 0
    /\ errs' = [errs EXCEPT !.pipe = @ - 1, !.line = TRUE]
    /\ OnlyErrs

\* tx.send(line).await: waits for room in the channel; Err when the
\* receiver was dropped, and the task breaks out of its loop
StderrSend ==
    /\ errs.reader = "run"
    /\ errs.line
    /\ IF errs.rx = "dropped"
       THEN errs' = [errs EXCEPT !.reader = "done", !.line = FALSE, !.pipe = 0]
       ELSE /\ errs.chan < StderrChanCap
            /\ errs' = [errs EXCEPT !.line = FALSE, !.chan = @ + 1]
    /\ OnlyErrs

\* next_line yields Ok(None): the child has exited and the pipe is empty
StderrEof ==
    /\ errs.reader = "run"
    /\ ~errs.line
    /\ errs.pipe = 0
    /\ errs.child = "exited"
    /\ errs' = [errs EXCEPT !.reader = "done"]
    /\ OnlyErrs

\* ClaudeClient::stderr_receiver: the owner takes the receiver
TakeStderrReceiver ==
    /\ errs.rx = "client"
    /\ errs' = [errs EXCEPT !.rx = "owner"]
    /\ OnlyErrs

\* the owner receives a line
OwnerRecvStderr ==
    /\ errs.rx = "owner"
    /\ errs.chan > 0
    /\ errs' = [errs EXCEPT !.chan = @ - 1]
    /\ OnlyErrs

\* the owner drops the receiver
OwnerDropsStderr ==
    /\ errs.rx = "owner"
    /\ errs' = [errs EXCEPT !.rx = "dropped", !.chan = 0]
    /\ OnlyErrs

NextStderr ==
    \/ ChildStdout
    \/ ChildDiagnostic
    \/ ChildDiagnosticWritten
    \/ ChildExit
    \/ StderrNextLine
    \/ StderrSend
    \/ StderrEof
    \/ TakeStderrReceiver
    \/ OwnerRecvStderr
    \/ OwnerDropsStderr

\* the reader task is scheduled by the runtime and the child's write returns
\* when the pipe takes the line; whether anybody reads the receiver is up to
\* the owner of the client
SpecStderr ==
    /\ InitStderr
    /\ [][NextStderr]_vars
    /\ WF_vars(StderrNextLine)
    /\ WF_vars(StderrSend)
    /\ WF_vars(ChildDiagnosticWritten)

\* C39: the child is never stalled on stderr: a diagnostic line it has
\* started to write is eventually written, whether or not anybody reads the
\* stderr receiver, so the task of read_lines never waits for ever on its
\* channel.
C39_DiagnosticsNeverStall ==
    (errs.child = "err") ~> (errs.child # "err")

====
